---- MODULE Spec2Model ----
(***************************************************************************)
(* Grid level layout: the corridor router and the layout repair of         *)
(* LevelLayoutService; the wall carving, the object placement and the      *)
(* geometry and camera of AssemblyService; the sessions of SessionService, *)
(* the edits of ChatGateway and EditService and the chats of ChatService.  *)
(*                                                                         *)
(* Numbers.  Segment coordinates, rectangles handed to the router and      *)
(* world coordinates are integers.  The numeric fields of a GridRoom held  *)
(* in `layout` (gridX, gridY, width, height) come from a generator and may *)
(* be fractional: they are held in HALVES, the field holding twice the     *)
(* number (5 stands for 2.5, 8 for 4).  Num and Cells convert.  A room     *)
(* centre gridX + width/2 is held doubled (centerX2 = 2*gridX + width).    *)
(*                                                                         *)
(* Optional values.  An optional field is a sequence of length 0 (absent)  *)
(* or 1 (present): None, Some(x).                                          *)
(***************************************************************************)
EXTENDS Integers, Sequences, FiniteSets, TLC

VARIABLES
    pc,        \* position of the run: which call has been made
    fromRoom,  \* router: the source room (integer cells)
    toRoom,    \* router: the destination room (integer cells)
    corridor,  \* router: the corridor returned, None before the call
    layout,    \* repair: the LevelLayout object, mutated in place
    given,     \* repair: the layout as the generator returned it
    once,      \* repair: the layout the first call returned, None before
    err,       \* repair: the error the last call raised, "none" if none
    wall,      \* carving: the arguments of the call (side, axis, openings)
    walls,     \* carving: the GeometryWall list the call pushes to
    context,   \* placement: the game context (characters and props)
    assets,    \* placement: the generated assets
    objects,   \* placement: the scene objects returned
    scene,     \* assembly: the scene config assemble returned, None before
    scene2,    \* assembly: the scene config a second call returned
    skybox,    \* assembly: the generated skybox, None if there is none
    found,     \* assembly: the openings found, by room and by corridor
    sessions,  \* SessionService.sessions: session id -> SessionState
    tasks,     \* ChatGateway.handleEdit: the invocations and where each stands
    chats,     \* ChatService.chats: session id -> ChatState
    emitted    \* ChatGateway: the events the last step emitted to the client

routeVars == <<fromRoom, toRoom, corridor>>
repairVars == <<layout, given, once, err>>
carveVars == <<wall, walls>>
placeVars == <<context, assets, objects>>
assembleVars == <<skybox, scene, scene2, found>>
chatVars == <<chats, emitted>>
sessionVars == <<sessions, tasks, chatVars>>
vars == <<pc, routeVars, repairVars, carveVars, placeVars, assembleVars, sessionVars>>

None == <<>>
Some(x) == <<x>>
Has(o) == Len(o) > 0
Get(o) == o[1]

Max(a, b) == IF a >= b THEN a ELSE b
Min(a, b) == IF a <= b THEN a ELSE b

Range(s) == {s[i] : i \in DOMAIN s}

\* Nothing assembled; no session, no edit in flight.
AssembleIdle == skybox = <<>> /\ scene = <<>> /\ scene2 = <<>> /\ found = <<>>
SessionIdle == sessions = <<>> /\ tasks = <<>> /\ chats = <<>> /\ emitted = <<>>

\* Sequences over S of length 0..n.
SeqUpTo(S, n) == UNION {[1..k -> S] : k \in 0..n}

(***************************************************************************)
(* Bounds of the model.                                                    *)
(***************************************************************************)
MaxCoord == 8       \* router: |gridX|, |gridY| of the destination room
MaxSide == 4        \* router: largest room side, in cells
MaxWidthCells == 2  \* largest corridor width, in cells

\* Program constants.
GRID_CELL_SIZE == 4
WALL_HEIGHT == 4

(***************************************************************************)
(* CorridorRouter: LevelLayoutService.buildCorridorBetweenRooms            *)
(***************************************************************************)

\* Math.floor(n / 2) for an integer n.
FloorHalf(n) == n \div 2

\* The edges of a room, as buildCorridorBetweenRooms computes them.
\* centerX2, centerY2 are twice centerX, centerY.
Edges(room) ==
    [minX |-> room.gridX,
     maxX |-> room.gridX + room.width,
     minY |-> room.gridY,
     maxY |-> room.gridY + room.height,
     centerX2 |-> 2 * room.gridX + room.width,
     centerY2 |-> 2 * room.gridY + room.height]

getOverlap(min1, max1, min2, max2) ==
    LET overlapStart == Max(min1, min2)
        overlapEnd == Min(max1, max2)
    IN  [hasOverlap |-> overlapStart < overlapEnd,
         start |-> overlapStart,
         end |-> overlapEnd]

Seg(sx, sy, ex, ey) == [startX |-> sx, startY |-> sy, endX |-> ex, endY |-> ey]

\* A plausible slip: the far edges are taken whatever the order of the rooms.
buildVerticalCorridorFar(from, to, overlapX) ==
    LET x == FloorHalf(overlapX.start + overlapX.end)
    IN  <<Seg(x, from.minY, x, to.maxY)>>

buildVerticalCorridor(from, to, overlapX) ==
    LET x == FloorHalf(overlapX.start + overlapX.end)
        above == from.maxY <= to.minY
        startY == IF above THEN from.maxY ELSE from.minY
        endY == IF above THEN to.minY ELSE to.maxY
    IN  <<Seg(x, startY, x, endY)>>

\* A plausible slip: the segment runs at the source's centre row.
buildHorizontalCorridorCentre(from, to, overlapY) ==
    LET y == FloorHalf(from.centerY2)
        left == from.maxX <= to.minX
        startX == IF left THEN from.maxX ELSE from.minX
        endX == IF left THEN to.minX ELSE to.maxX
    IN  <<Seg(startX, y, endX, y)>>

buildHorizontalCorridor(from, to, overlapY) ==
    LET y == FloorHalf(overlapY.start + overlapY.end)
        left == from.maxX <= to.minX
        startX == IF left THEN from.maxX ELSE from.minX
        endX == IF left THEN to.minX ELSE to.maxX
    IN  <<Seg(startX, y, endX, y)>>

\* A plausible slip: the L starts at the source's centre, not on its edge.
buildLShapedCorridorOwnCorner(from, to) ==
    LET goingDown == to.centerY2 > from.centerY2
        startX == FloorHalf(from.centerX2)
        startY == FloorHalf(from.centerY2)
        endX == FloorHalf(to.centerX2)
        endY == IF goingDown THEN to.minY ELSE to.maxY
    IN  <<Seg(startX, startY, endX, startY), Seg(endX, startY, endX, endY)>>

buildLShapedCorridor(from, to) ==
    LET goingRight == to.centerX2 > from.centerX2
        goingDown == to.centerY2 > from.centerY2
        startX == IF goingRight THEN from.maxX ELSE from.minX
        startY == FloorHalf(from.centerY2)
        endX == FloorHalf(to.centerX2)
        endY == IF goingDown THEN to.minY ELSE to.maxY
        cornerX == endX
        cornerY == startY
    IN  <<Seg(startX, startY, cornerX, cornerY), Seg(cornerX, cornerY, endX, endY)>>

\* A plausible slip: three segments, a Z through the midpoint column.
RouteSegmentsZ(from, to) ==
    LET midX == FloorHalf(FloorHalf(from.centerX2) + FloorHalf(to.centerX2))
        y1 == FloorHalf(from.centerY2)
        y2 == FloorHalf(to.centerY2)
        left == from.maxX <= to.minX
    IN  <<Seg(IF left THEN from.maxX ELSE from.minX, y1, midX, y1),
          Seg(midX, y1, midX, y2),
          Seg(midX, y2, IF left THEN to.minX ELSE to.maxX, y2)>>

\* The segments buildCorridorBetweenRooms chooses for two rooms.
RouteSegments(from, to) ==
    LET overlapX == getOverlap(from.minX, from.maxX, to.minX, to.maxX)
        overlapY == getOverlap(from.minY, from.maxY, to.minY, to.maxY)
    IN  IF overlapX.hasOverlap THEN buildVerticalCorridor(from, to, overlapX)
        ELSE IF overlapY.hasOverlap THEN buildHorizontalCorridor(from, to, overlapY)
        ELSE buildLShapedCorridor(from, to)

buildCorridorBetweenRooms(corridorId, from, to, widthCells) ==
    LET segments == RouteSegments(Edges(from), Edges(to))
    IN  [id |-> corridorId,
         fromRoom |-> from.id,
         toRoom |-> to.id,
         segments |-> segments,
         widthCells |-> widthCells,
         startX |-> segments[1].startX,
         startY |-> segments[1].startY,
         endX |-> segments[Len(segments)].endX,
         endY |-> segments[Len(segments)].endY]

\* An integer room, as the router receives it.
CellRoom(id, x, y, w, h) == [id |-> id, gridX |-> x, gridY |-> y, width |-> w, height |-> h]

\* The smallest side a room has once repaired: Math.max(2, ...).
MinSide == 2

Sides == MinSide..MaxSide
FromRooms == {CellRoom("from", x, y, w, h) : x \in -1..0, y \in -1..0, w \in Sides, h \in Sides}
ToRooms ==
    {CellRoom("to", x, y, w, h) :
        x \in -MaxCoord..MaxCoord, y \in -MaxCoord..MaxCoord, w \in Sides, h \in Sides}

RouteIdle ==
    /\ layout = None /\ given = None /\ once = None /\ err = "none"
    /\ wall = None /\ walls = <<>>
    /\ context = None /\ assets = <<>> /\ objects = <<>>
    /\ AssembleIdle /\ SessionIdle

InitRoute ==
    /\ pc = "route"
    /\ fromRoom \in FromRooms
    /\ toRoom \in ToRooms
    /\ corridor = None
    /\ RouteIdle

\* One call of buildCorridorBetweenRooms, in either direction.
Route ==
    /\ pc = "route"
    /\ \E w \in 1..MaxWidthCells :
          corridor' = Some(buildCorridorBetweenRooms("corr_1", fromRoom, toRoom, w))
    /\ pc' = "routed"
    /\ UNCHANGED <<fromRoom, toRoom, repairVars, carveVars, placeVars, assembleVars, sessionVars>>

RouteBack ==
    /\ pc = "route"
    /\ \E w \in 1..MaxWidthCells :
          corridor' = Some(buildCorridorBetweenRooms("corr_1", toRoom, fromRoom, w))
    /\ fromRoom' = toRoom
    /\ toRoom' = fromRoom
    /\ pc' = "routed"
    /\ UNCHANGED <<repairVars, carveVars, placeVars, assembleVars, sessionVars>>

NextRoute == Route \/ RouteBack

SpecRoute == InitRoute /\ [][NextRoute]_vars

(***************************************************************************)
(* LayoutRepairer: LevelLayoutService.validateAndFixLayout                 *)
(***************************************************************************)
MaxRooms == 3   \* longest room list the generator returns

\* n as a room field (halves), and a repaired room field in cells.
Num(n) == 2 * n
Cells(h) == h \div 2

\* Math.round of a number held in halves: floor(x + 0.5), again in halves.
MathRound(h) == Num((h + 1) \div 2)

\* The repaired room as the router reads it: integer cells.
GridCells(room) ==
    CellRoom(room.id, Cells(room.gridX), Cells(room.gridY), Cells(room.width), Cells(room.height))

RoomIds == <<"room_1", "room_2", "room_3", "room_4", "room_5">>

\* Lines 166-172: the grid config synthesised when the level has none.
DefaultGrid == [cellSize |-> GRID_CELL_SIZE, totalWidth |-> 30, totalHeight |-> 50]

\* A plausible slip: Math.floor where the code has Math.round.
FixRoomFloor(room) ==
    [room EXCEPT
        !.gridX = Num(room.gridX \div 2),
        !.gridY = Num(room.gridY \div 2),
        !.width = Max(Num(2), Num(room.width \div 2)),
        !.height = Max(Num(2), Num(room.height \div 2)),
        !.tags = IF Has(room.tags) THEN room.tags ELSE Some(<<"mid">>)]

\* Lines 176-183, one room: every number rounded, sides at least 2, tags defaulted.
FixRoom(room) ==
    [room EXCEPT
        !.gridX = MathRound(room.gridX),
        !.gridY = MathRound(room.gridY),
        !.width = Max(Num(2), MathRound(room.width)),
        !.height = Max(Num(2), MathRound(room.height)),
        !.tags = IF Has(room.tags) THEN room.tags ELSE Some(<<"mid">>)]

FixRooms(rooms) == [i \in DOMAIN rooms |-> FixRoom(rooms[i])]

\* roomsMap.get(id): Map.set keeps the last room stored under an id.
RoomsMapGet(rooms, id) ==
    LET at == {i \in DOMAIN rooms : rooms[i].id = id}
    IN  IF at = {} THEN None
        ELSE Some(rooms[CHOOSE i \in at : \A j \in at : j <= i])

\* corridor.widthCells || 1
WidthOr1(c) == IF c.widthCells = 0 THEN 1 ELSE c.widthCells

RECURSIVE FixedCorridors(_, _)
FixedCorridors(corridors, rooms) ==
    IF corridors = <<>> THEN <<>>
    ELSE LET c == Head(corridors)
             from == RoomsMapGet(rooms, c.fromRoom)
             to == RoomsMapGet(rooms, c.toRoom)
             rest == FixedCorridors(Tail(corridors), rooms)
         IN  IF Has(from) /\ Has(to)
             THEN <<buildCorridorBetweenRooms(
                        c.id, GridCells(Get(from)), GridCells(Get(to)), WidthOr1(c))>> \o rest
             ELSE rest

\* A plausible slip: a corridor with an unresolved endpoint is kept as given.
RebuildCorridorsKeepDangling(corridors, rooms) ==
    [i \in DOMAIN corridors |->
        LET c == corridors[i]
            from == RoomsMapGet(rooms, c.fromRoom)
            to == RoomsMapGet(rooms, c.toRoom)
        IN  IF Has(from) /\ Has(to)
            THEN buildCorridorBetweenRooms(
                     c.id, GridCells(Get(from)), GridCells(Get(to)), WidthOr1(c))
            ELSE c]

\* A plausible slip: the rebuilt corridors are appended to the generator's.
RebuildCorridorsAppend(corridors, rooms) == corridors \o FixedCorridors(corridors, rooms)

\* Lines 185-201: level.corridors after the rebuild.
RebuildCorridors(corridors, rooms) == FixedCorridors(corridors, rooms)

Poi(id, type, roomId) ==
    [id |-> id, type |-> type, roomId |-> roomId, offsetX |-> 0, offsetY |-> 0]

HasTag(room, tag) == Has(room.tags) /\ tag \in Range(Get(room.tags))

\* rooms.find(r => r.tags?.includes(tag)) || rooms[fallback]
FindTagged(rooms, tag, fallback) ==
    LET at == {i \in DOMAIN rooms : HasTag(rooms[i], tag)}
    IN  IF at = {} THEN rooms[fallback]
        ELSE rooms[CHOOSE i \in at : \A j \in at : i <= j]

\* A plausible slip: the tags are not looked at, first and last room taken.
generateDefaultPOIsFirstLast(rooms) ==
    <<Poi("poi_spawn", "spawn", rooms[1].id), Poi("poi_goal", "goal", rooms[Len(rooms)].id)>>

generateDefaultPOIs(rooms) ==
    LET entryRoom == FindTagged(rooms, "entry", 1)
        goalRoom == FindTagged(rooms, "goal", Len(rooms))
    IN  <<Poi("poi_spawn", "spawn", entryRoom.id), Poi("poi_goal", "goal", goalRoom.id)>>

HasType(pois, type) == \E i \in DOMAIN pois : pois[i].type = type

\* Lines 203-214: level.pois after the two checks.
FixPois(pois, rooms) ==
    LET first == IF ~Has(pois) \/ Len(Get(pois)) < 2
                 THEN generateDefaultPOIs(rooms) ELSE Get(pois)
    IN  IF ~HasType(first, "spawn") \/ ~HasType(first, "goal")
        THEN generateDefaultPOIs(rooms) ELSE first

\* Lines 216-219.
FixCriticalPath(criticalPath, rooms) ==
    IF ~Has(criticalPath) \/ Len(Get(criticalPath)) < 2
    THEN [i \in DOMAIN rooms |-> rooms[i].id]
    ELSE Get(criticalPath)

MissingLevel == "Missing level in layout"
TooFewRooms == "At least 2 rooms required"
NotIterable == "TypeError: level.corridors is not iterable"

\* Line 161: !level.rooms || level.rooms.length < 2
RoomsMissing(lv) == ~Has(lv.rooms) \/ Len(Get(lv.rooms)) < 2

\* Lines 165-183: the level once the grid and the rooms are fixed.
WithGridAndRooms(lv) ==
    [lv EXCEPT
        !.grid = IF Has(lv.grid) THEN lv.grid ELSE Some(DefaultGrid),
        !.rooms = Some(FixRooms(Get(lv.rooms)))]

\* Lines 185-219: the corridors, the POIs and the critical path.  Iterating
\* an absent corridors list throws, and leaves the level as it then is.
FixRest(lv) ==
    IF ~Has(lv.corridors) THEN [layout |-> [level |-> Some(lv)], err |-> NotIterable]
    ELSE LET rooms == Get(lv.rooms)
         IN  [layout |-> [level |-> Some(
                  [lv EXCEPT
                      !.corridors = Some(RebuildCorridors(Get(lv.corridors), rooms)),
                      !.pois = Some(FixPois(lv.pois, rooms)),
                      !.criticalPath = Some(FixCriticalPath(lv.criticalPath, rooms))])],
              err |-> "none"]

\* A plausible slip: the grid is synthesised before the rooms are counted.
validateAndFixLayoutGridFirst(lay) ==
    IF ~Has(lay.level) THEN [layout |-> lay, err |-> MissingLevel]
    ELSE LET lv == Get(lay.level)
             g == [lv EXCEPT !.grid = IF Has(lv.grid) THEN lv.grid ELSE Some(DefaultGrid)]
         IN  IF RoomsMissing(lv) THEN [layout |-> [level |-> Some(g)], err |-> TooFewRooms]
             ELSE FixRest(WithGridAndRooms(lv))

\* validateAndFixLayout(layout): the layout as the call leaves it, and the
\* error it throws ("none" when it returns).
validateAndFixLayout(lay) ==
    IF ~Has(lay.level) THEN [layout |-> lay, err |-> MissingLevel]
    ELSE LET lv == Get(lay.level)
         IN  IF RoomsMissing(lv) THEN [layout |-> lay, err |-> TooFewRooms]
             ELSE FixRest(WithGridAndRooms(lv))

(***************************************************************************)
(* The layouts a generator returns (chatJSON): any of these.               *)
(***************************************************************************)
Shape(x, y, w, h, tags) == [gridX |-> x, gridY |-> y, width |-> w, height |-> h, tags |-> tags]

\* Room shapes, in halves: (0,0) 4x3; (0,6) 4x3 below it with a gap; (0,3)
\* 4x3 touching the first along an edge; (8,5) 4x3 aligned with neither;
\* (0.5,-2.5) 3.5x1, fractional and too small; (-7,2.5) 2.5x1.5.
RawShapes ==
    {Shape(0, 0, 8, 6, Some(<<"entry">>)),
     Shape(0, 12, 8, 6, None),
     Shape(0, 6, 8, 6, Some(<<"goal">>)),
     Shape(16, 10, 8, 6, Some(<<"mid">>)),
     Shape(1, -5, 7, 2, Some(<<>>)),
     Shape(-14, 5, 5, 3, Some(<<"secret", "goal">>))}

RawRoom(i, shape) ==
    [id |-> RoomIds[i], gridX |-> shape.gridX, gridY |-> shape.gridY,
     width |-> shape.width, height |-> shape.height, tags |-> shape.tags,
     material |-> None]

RawRoomLists ==
    {[i \in DOMAIN shapes |-> RawRoom(i, shapes[i])] : shapes \in SeqUpTo(RawShapes, MaxRooms)}

\* A corridor as the generator writes it: two points, no segments.
RawCorridor(id, from, to, widthCells, sx, sy, ex, ey) ==
    [id |-> id, fromRoom |-> from, toRoom |-> to, segments |-> <<>>,
     widthCells |-> widthCells, startX |-> sx, startY |-> sy, endX |-> ex, endY |-> ey]

RawCorridorLists ==
    {None,
     Some(<<>>),
     Some(<<RawCorridor("corr_1", "room_1", "room_2", 0, 7, 7, 9, 9)>>),
     Some(<<RawCorridor("corr_1", "room_2", "room_1", MaxWidthCells, 2, 3, 2, 6)>>),
     Some(<<RawCorridor("corr_1", "room_1", "room_9", 1, 0, 0, 0, 0),
            RawCorridor("corr_2", "room_2", "room_3", 1, 1, 1, 1, 4)>>),
     Some(<<RawCorridor("corr_1", "room_1", "room_3", 1, 0, 0, 5, 0),
            RawCorridor("corr_2", "room_3", "room_2", 0, 3, 3, 3, 3)>>)}

RawPoiLists ==
    {None,
     Some(<<>>),
     Some(<<Poi("poi_1", "spawn", "room_1")>>),
     Some(<<Poi("poi_1", "spawn", "room_1"), Poi("poi_2", "goal", "room_2")>>),
     Some(<<Poi("poi_1", "goal", "room_2"), Poi("poi_2", "treasure", "room_1")>>),
     Some(<<Poi("poi_1", "treasure", "room_1"), Poi("poi_2", "checkpoint", "room_2")>>),
     Some(<<Poi("poi_1", "spawn", "room_1"), Poi("poi_2", "spawn", "room_2"),
            Poi("poi_3", "goal", "room_2")>>),
     Some(<<Poi("poi_1", "spawn", "room_2"), Poi("poi_2", "goal", "room_1"),
            Poi("poi_3", "goal", "room_2")>>)}

RawCriticalPaths == {None, Some(<<"room_1">>), Some(<<"room_2", "room_1">>)}

RawGrids == {None, Some([cellSize |-> GRID_CELL_SIZE, totalWidth |-> 20, totalHeight |-> 24])}

RawLevels ==
    [grid : RawGrids,
     rooms : {None} \cup {Some(r) : r \in RawRoomLists},
     corridors : RawCorridorLists,
     pois : RawPoiLists,
     criticalPath : RawCriticalPaths]

RawLayouts == {[level |-> None]} \cup {[level |-> Some(lv)] : lv \in RawLevels}

RepairIdle ==
    /\ fromRoom = None /\ toRoom = None /\ corridor = None
    /\ wall = None /\ walls = <<>>
    /\ context = None /\ assets = <<>> /\ objects = <<>>
    /\ AssembleIdle /\ SessionIdle

\* generateLayout has the generator's answer in hand.
Init ==
    /\ pc = "received"
    /\ layout \in RawLayouts
    /\ given = layout
    /\ once = None
    /\ err = "none"
    /\ RepairIdle

\* generateLayout line 139: validateAndFixLayout(layout) on the answer.
Repair ==
    /\ pc = "received"
    /\ LET r == validateAndFixLayout(layout)
       IN  /\ layout' = r.layout
           /\ err' = r.err
           /\ pc' = IF r.err = "none" THEN "repaired" ELSE "failed"
           /\ once' = IF r.err = "none" THEN Some(r.layout) ELSE None
    /\ UNCHANGED <<given, routeVars, carveVars, placeVars, assembleVars, sessionVars>>

\* validateAndFixLayout applied to its own result.
RepairAgain ==
    /\ pc = "repaired"
    /\ LET r == validateAndFixLayout(layout)
       IN  /\ layout' = r.layout
           /\ err' = r.err
           /\ pc' = IF r.err = "none" THEN "repaired2" ELSE "failed2"
    /\ UNCHANGED <<given, once, routeVars, carveVars, placeVars, assembleVars, sessionVars>>

Next == Repair \/ RepairAgain

Spec == Init /\ [][Next]_vars

(***************************************************************************)
(* Wall carving: AssemblyService.createWallWithOpenings                    *)
(***************************************************************************)
MaxWall == 14      \* largest world coordinate of a wall end
MaxOpenings == 2   \* most openings on one side

Opening(position, width) == [position |-> position, width |-> width]

\* Array.prototype.sort by position (stable): insertion into a sorted list.
RECURSIVE InsertByPosition(_, _)
InsertByPosition(o, sorted) ==
    IF sorted = <<>> THEN <<o>>
    ELSE IF o.position < Head(sorted).position THEN <<o>> \o sorted
    ELSE <<Head(sorted)>> \o InsertByPosition(o, Tail(sorted))

RECURSIVE SortFrom(_, _)
SortFrom(openings, sorted) ==
    IF openings = <<>> THEN sorted
    ELSE SortFrom(Tail(openings), InsertByPosition(Head(openings), sorted))

\* A plausible slip: the openings are carved in the order they were found.
SortByPositionForgotten(openings) == openings

\* [...openings].sort((a, b) => a.position - b.position)
SortByPosition(openings) == SortFrom(openings, <<>>)

\* The coordinate of a point along the wall's axis, and the point with that
\* coordinate replaced.
Along(axis, point) == IF axis = "x" THEN point[1] ELSE point[3]
AtPos(axis, point, pos) ==
    IF axis = "x" THEN <<pos, point[2], point[3]>> ELSE <<point[1], point[2], pos>>

\* id stands for the string `wall_${id}`.
WallSpan(id, start, end, color) ==
    [id |-> id, start |-> start, end |-> end, height |-> WALL_HEIGHT, color |-> color]

\* Lines 453-494: the loop over the sorted openings, then the last span.
RECURSIVE CarveLoop(_, _, _, _, _, _, _, _)
CarveLoop(ws, id, currentPos, sorted, start, end, axis, color) ==
    IF sorted = <<>>
    THEN IF currentPos < Along(axis, end)
         THEN Append(ws, WallSpan(id, AtPos(axis, start, currentPos),
                                  AtPos(axis, end, Along(axis, end)), color))
         ELSE ws
    ELSE LET opening == Head(sorted)
             openingStart == opening.position - opening.width \div 2
             openingEnd == opening.position + opening.width \div 2
             before == currentPos < openingStart
         IN  CarveLoop(
                 IF before
                 THEN Append(ws, WallSpan(id, AtPos(axis, start, currentPos),
                                          AtPos(axis, end, openingStart), color))
                 ELSE ws,
                 IF before THEN id + 1 ELSE id,
                 Max(currentPos, openingEnd),
                 Tail(sorted), start, end, axis, color)

\* The walls list after createWallWithOpenings(walls, startId, start, end,
\* axis, openings, color).
createWallWithOpenings(ws, startId, start, end, axis, openings, color) ==
    IF Len(openings) = 0
    THEN Append(ws, WallSpan(startId, start, end, color))
    ELSE CarveLoop(ws, startId, Along(axis, start), SortByPosition(openings),
                   start, end, axis, color)

\* The sides buildGridWalls passes: a line along x or z, at a fixed other
\* coordinate, from wallStart to wallEnd > wallStart.
Side(axis, wallStart, wallEnd, openings, startId) ==
    [axis |-> axis,
     start |-> IF axis = "x" THEN <<wallStart, 0, 8>> ELSE <<8, 0, wallStart>>,
     end |-> IF axis = "x" THEN <<wallEnd, 0, 8>> ELSE <<8, 0, wallEnd>>,
     openings |-> openings,
     startId |-> startId,
     color |-> "#4a4a7a"]

\* An opening's width is corridor.widthCells * CELL_SIZE; findRoomOpenings
\* puts its centre within the side.
OpeningsOn(wallStart, wallEnd) ==
    {Opening(p, w * GRID_CELL_SIZE) : p \in wallStart..wallEnd, w \in 1..MaxWidthCells}

CarveIdle ==
    /\ fromRoom = None /\ toRoom = None /\ corridor = None
    /\ layout = None /\ given = None /\ once = None /\ err = "none"
    /\ context = None /\ assets = <<>> /\ objects = <<>>
    /\ AssembleIdle /\ SessionIdle

InitCarve ==
    /\ pc = "carve"
    /\ \E axis \in {"x", "z"}, a \in {0, 4}, b \in {12, MaxWall}, id \in {0, 3} :
          \E os \in SeqUpTo(OpeningsOn(a, b), MaxOpenings) :
              wall = Some(Side(axis, a, b, os, id))
    /\ walls = <<>>
    /\ CarveIdle

\* One call of createWallWithOpenings.
Carve ==
    /\ pc = "carve"
    /\ LET w == Get(wall)
       IN  walls' = createWallWithOpenings(
                        walls, w.startId, w.start, w.end, w.axis, w.openings, w.color)
    /\ pc' = "carved"
    /\ UNCHANGED <<wall, routeVars, repairVars, placeVars, assembleVars, sessionVars>>

NextCarve == Carve

SpecCarve == InitCarve /\ [][NextCarve]_vars

(***************************************************************************)
(* Claims about wall carving, checked under SpecCarve.                     *)
(***************************************************************************)
W == Get(wall)
WallStart == Along(W.axis, W.start)
WallEnd == Along(W.axis, W.end)
OpenStart(o) == o.position - o.width \div 2
OpenEnd(o) == o.position + o.width \div 2

\* No two openings of the side share more than an end point.
NonOverlapping(openings) ==
    \A i, j \in DOMAIN openings :
        i /= j => \/ OpenEnd(openings[i]) <= OpenStart(openings[j])
                  \/ OpenEnd(openings[j]) <= OpenStart(openings[i])

\* How many spans and openings cover the unit piece [k, k+1] of the wall line.
CoverCount(k) ==
    Cardinality({i \in DOMAIN walls :
        Along(W.axis, walls[i].start) <= k /\ k + 1 <= Along(W.axis, walls[i].end)})
    + Cardinality({i \in DOMAIN W.openings :
        OpenStart(W.openings[i]) <= k /\ k + 1 <= OpenEnd(W.openings[i])})

\* C9: with N pairwise non-overlapping openings the call emits at most N+1
\* spans, each a non-empty piece of the side; every piece of the side is
\* covered by exactly one span or opening; with no opening the one span is
\* the whole side.
C9_CarveCoverage ==
    (pc = "carved" /\ NonOverlapping(W.openings)) =>
        /\ Len(walls) <= Len(W.openings) + 1
        /\ \A i \in DOMAIN walls :
              /\ WallStart <= Along(W.axis, walls[i].start)
              /\ Along(W.axis, walls[i].start) < Along(W.axis, walls[i].end)
              /\ Along(W.axis, walls[i].end) <= WallEnd
              /\ walls[i].start = AtPos(W.axis, W.start, Along(W.axis, walls[i].start))
              /\ walls[i].end = AtPos(W.axis, W.end, Along(W.axis, walls[i].end))
        /\ \A k \in WallStart..(WallEnd - 1) : CoverCount(k) = 1
        /\ (Len(W.openings) = 0) => (walls = <<WallSpan(W.startId, W.start, W.end, W.color)>>)

\* C9's example, the openings found in the order 10, 2: openings centred at 2
\* and 10, each 4 wide, on the wall [0,14] leave the spans [4,8] and [12,14].
C9_Witness ==
    /\ pc = "carved"
    /\ W.axis = "x" /\ WallStart = 0 /\ WallEnd = 14
    /\ W.openings = <<Opening(10, 4), Opening(2, 4)>>
    /\ Len(walls) = 2
    /\ <<walls[1].start[1], walls[1].end[1]>> = <<4, 8>>
    /\ <<walls[2].start[1], walls[2].end[1]>> = <<12, 14>>

(***************************************************************************)
(* ObjectPlacer: AssemblyService.positionGridObjects                       *)
(***************************************************************************)
MaxAssets == 3   \* longest asset list

\* gridToWorldX(room.gridX + room.width / 2), gridToWorldZ(room.gridY +
\* room.height / 2): the world centre of a room, an integer as CELL_SIZE is even.
RoomCenterX(room) ==
    LET c == GridCells(room) IN (GRID_CELL_SIZE * (2 * c.gridX + c.width)) \div 2
RoomCenterZ(room) ==
    LET c == GridCells(room) IN (GRID_CELL_SIZE * (2 * c.gridY + c.height)) \div 2

\* ASSET_SCALES, held in halves (npc is 2.5).
ASSET_SCALES ==
    [protagonist |-> <<6, 6, 6>>, antagonist |-> <<10, 10, 10>>,
     npc |-> <<5, 5, 5>>, prop |-> <<4, 4, 4>>]

\* A position [x, 0, z]; with an arc, the point at `radius` from it in the
\* direction `angle` (degrees, modulo a full turn, as cos and sin are).
Position(x, z, arc) == [x |-> x, y |-> 0, z |-> z, arc |-> arc]
Arc(propIndex) == [angle |-> (propIndex * 60 - 30) % 360, radius |-> 3]

\* array.find(pred): the first element with the property, if any.
FindFirst(seq, hits) ==
    IF hits = {} THEN None
    ELSE Some(seq[CHOOSE i \in hits : \A j \in hits : i <= j])
FindId(seq, id) == FindFirst(seq, {i \in DOMAIN seq : seq[i].id = id})
FindType(pois, type) == FindFirst(pois, {i \in DOMAIN pois : pois[i].type = type})
FindRoomTagged(rooms, tag) == FindFirst(rooms, {i \in DOMAIN rooms : HasTag(rooms[i], tag)})

SceneObject(asset, position, scale, poiId) ==
    [id |-> <<"obj", asset.id>>,
     reference_id |-> asset.id,
     name |-> asset.name,
     model_path |-> asset.path,
     position |-> position,
     rotation |-> <<0, 0, 0>>,
     scale |-> scale,
     poi_id |-> poiId]

\* Lines 573-607: where a character goes.
PlaceCharacter(asset, character, lv) ==
    LET rooms == Get(lv.rooms)
        pois == Get(lv.pois)
        spawnPOI == FindType(pois, "spawn")
        goalPOI == FindType(pois, "goal")
        unplaced == SceneObject(asset, Position(0, 0, None), ASSET_SCALES.prop, None)
    IN  IF character.role = "protagonist" /\ Has(spawnPOI)
        THEN LET room == RoomsMapGet(rooms, Get(spawnPOI).roomId)
             IN  IF Has(room)
                 THEN SceneObject(asset,
                          Position(RoomCenterX(Get(room)), RoomCenterZ(Get(room)), None),
                          ASSET_SCALES.protagonist, Some(Get(spawnPOI).id))
                 ELSE unplaced
        ELSE IF character.role = "antagonist" /\ Has(goalPOI)
        THEN LET room == RoomsMapGet(rooms, Get(goalPOI).roomId)
             IN  IF Has(room)
                 THEN SceneObject(asset,
                          Position(RoomCenterX(Get(room)), RoomCenterZ(Get(room)), None),
                          ASSET_SCALES.antagonist, Some(Get(goalPOI).id))
                 ELSE unplaced
        ELSE LET midRoom == FindRoomTagged(rooms, "mid")
             IN  IF Has(midRoom)
                 THEN SceneObject(asset,
                          Position(RoomCenterX(Get(midRoom)) + 3, RoomCenterZ(Get(midRoom)), None),
                          ASSET_SCALES.npc, None)
                 ELSE unplaced

\* prop.placement_tags?.[0] || 'mid'
TargetTag(prop) ==
    IF Has(prop.placement_tags) /\ Len(Get(prop.placement_tags)) > 0
    THEN Get(prop.placement_tags)[1] ELSE "mid"

\* Lines 563-640: the loop over the assets.  roomPropCount maps a room id
\* to the number of props placed in it so far.
RECURSIVE PlaceLoop(_, _, _, _, _)
PlaceLoop(todo, objs, roomPropCount, lv, ctx) ==
    IF todo = <<>> THEN objs
    ELSE LET asset == Head(todo)
             rooms == Get(lv.rooms)
             character == FindId(ctx.characters, asset.id)
             prop == IF Has(ctx.props)
                     THEN FindId(Get(ctx.props), asset.id) ELSE None
             targetRoom == IF Has(prop)
                           THEN FindRoomTagged(rooms, TargetTag(Get(prop)))
                           ELSE None
             propPlaced == ~Has(character) /\ Has(prop) /\ Has(targetRoom)
             propIndex == IF propPlaced THEN roomPropCount[Get(targetRoom).id] ELSE 0
             unplaced == SceneObject(asset, Position(0, 0, None), ASSET_SCALES.prop, None)
             object ==
                 IF Has(character) THEN PlaceCharacter(asset, Get(character), lv)
                 ELSE IF propPlaced
                 THEN SceneObject(asset,
                          Position(RoomCenterX(Get(targetRoom)), RoomCenterZ(Get(targetRoom)),
                                   Some(Arc(propIndex))),
                          ASSET_SCALES.prop, None)
                 ELSE unplaced
         IN  IF asset.status /= "ready" \/ asset.path = ""
             THEN PlaceLoop(Tail(todo), objs, roomPropCount, lv, ctx)
             ELSE PlaceLoop(Tail(todo), Append(objs, object),
                      IF propPlaced
                      THEN [roomPropCount EXCEPT ![Get(targetRoom).id] = propIndex + 1]
                      ELSE roomPropCount,
                      lv, ctx)

positionGridObjects(lv, as, ctx) ==
    PlaceLoop(as, <<>>, [id \in Range(RoomIds) |-> 0], lv, ctx)

\* The levels the placer receives: repaired answers of the generator.
PlaceShapes ==
    {Shape(0, 0, 8, 6, Some(<<"entry">>)),
     Shape(0, 12, 8, 6, None),
     Shape(0, 6, 8, 6, Some(<<"goal">>))}

PlaceRawLayouts ==
    {[level |-> Some([grid |-> None,
                      rooms |-> Some([i \in DOMAIN shapes |-> RawRoom(i, shapes[i])]),
                      corridors |-> Some(<<>>),
                      pois |-> pois,
                      criticalPath |-> None])] :
        shapes \in SeqUpTo(PlaceShapes, MaxRooms) \ SeqUpTo(PlaceShapes, 1),
        pois \in {None,
                  Some(<<Poi("poi_1", "spawn", "room_2"), Poi("poi_2", "goal", "room_1"),
                         Poi("poi_3", "goal", "room_2")>>),
                  Some(<<Poi("poi_1", "spawn", "room_3"), Poi("poi_2", "goal", "room_1")>>)}}

PlaceLayouts == {validateAndFixLayout(l).layout : l \in PlaceRawLayouts}

Character(id, role) == [id |-> id, role |-> role]
Prop(id, tags) == [id |-> id, placement_tags |-> tags]

Cast == <<Character("hero", "protagonist"), Character("boss", "antagonist"),
          Character("guard", "npc")>>

Contexts ==
    {[characters |-> Cast,
      props |-> Some(<<Prop("chest", Some(<<"goal", "mid">>)), Prop("torch", None),
                       Prop("barrel", Some(<<"vault">>))>>)],
     [characters |-> Cast, props |-> None]}

GeneratedAsset(id, status, path) == [id |-> id, name |-> id, status |-> status, path |-> path]

AssetPool ==
    {GeneratedAsset(id, "ready", "/models/m.glb") :
        id \in {"hero", "boss", "guard", "chest", "torch", "barrel"}}
    \cup {GeneratedAsset("torch", "failed", ""), GeneratedAsset("chest", "ready", "")}

\* A game with many props for the "mid" rooms, every one with a ready asset.
MaxProps == 7   \* most props of one game
PropNames == <<"crate_1", "crate_2", "crate_3", "crate_4", "crate_5", "crate_6",
               "crate_7", "crate_8">>
Hoard ==
    [characters |-> Cast,
     props |-> Some([k \in 1..MaxProps |-> Prop(PropNames[k], Some(<<"mid">>))])]
HoardAssets == [k \in 1..MaxProps |-> GeneratedAsset(PropNames[k], "ready", "/models/m.glb")]

PlaceIdle ==
    /\ fromRoom = None /\ toRoom = None /\ corridor = None
    /\ given = None /\ once = None /\ err = "none"
    /\ wall = None /\ walls = <<>>
    /\ AssembleIdle /\ SessionIdle

InitPlace ==
    /\ pc = "place"
    /\ layout \in PlaceLayouts
    /\ \/ /\ context \in {Some(c) : c \in Contexts}
          /\ assets \in SeqUpTo(AssetPool, MaxAssets)
       \/ /\ context = Some(Hoard)
          /\ assets \in {SubSeq(HoardAssets, 1, n) : n \in 1..MaxProps}
    /\ objects = <<>>
    /\ PlaceIdle

\* assemble line 107: positionGridObjects(level, assets, context).
Place ==
    /\ pc = "place"
    /\ objects' = positionGridObjects(Get(layout.level), assets, Get(context))
    /\ pc' = "placed"
    /\ UNCHANGED <<layout, context, assets, given, once, err, routeVars, carveVars, assembleVars, sessionVars>>

NextPlace == Place

SpecPlace == InitPlace /\ [][NextPlace]_vars

(***************************************************************************)
(* AssemblyService: the geometry built from a grid level.  Corridor and    *)
(* room numbers reaching the assembler are integers; a corridor whose      *)
(* `segments` is <<>> is one without a segments field (the corridors an    *)
(* edit adds), drawn from its startX .. endY.                              *)
(***************************************************************************)
gridToWorldX(gridX) == gridX * GRID_CELL_SIZE
gridToWorldZ(gridY) == gridY * GRID_CELL_SIZE
cellsToMeters(cells) == cells * GRID_CELL_SIZE

\* o || d
OrElse(o, d) == IF Has(o) THEN Get(o) ELSE d

RoomStyle(floorColor, wallColor, floorTexture, wallTexture) ==
    [floorColor |-> floorColor, wallColor |-> wallColor,
     floorTexture |-> floorTexture, wallTexture |-> wallTexture]

ROOM_STYLES ==
    "entry" :> RoomStyle("#5a8a5a", "#4a7a4a", "stone_floor", "brick_wall")
    @@ "goal" :> RoomStyle("#8a5a5a", "#7a4a4a", "dark_stone", "dungeon_wall")
    @@ "mid" :> RoomStyle("#5a5a8a", "#4a4a7a", "cobblestone", "stone_wall")
    @@ "secret" :> RoomStyle("#8a7a5a", "#7a6a4a", "old_wood", "hidden_wall")
    @@ "default" :> RoomStyle("#6a6a7a", "#5a5a6a", "stone_floor", "stone_wall")

\* The style of the first tag that names one, else the default style.
RECURSIVE getRoomStyle(_)
getRoomStyle(tags) ==
    IF tags = <<>> THEN ROOM_STYLES["default"]
    ELSE IF Head(tags) \in DOMAIN ROOM_STYLES THEN ROOM_STYLES[Head(tags)]
    ELSE getRoomStyle(Tail(tags))

\* A RoomMaterial: each field optional.
RoomMaterial(floorColor, wallColor, floorTexture, wallTexture) ==
    [floorColor |-> floorColor, wallColor |-> wallColor,
     floorTexture |-> floorTexture, wallTexture |-> wallTexture]
EmptyMaterial == RoomMaterial(None, None, None, None)

\* buildGridRooms, one room.  The floor thickness 0.2 is held in tenths.
GeometryRoom(room) ==
    LET defaultStyle == getRoomStyle(OrElse(room.tags, <<>>))
        material == OrElse(room.material, EmptyMaterial)
    IN  [id |-> room.id,
         position |-> <<RoomCenterX(room), 0, RoomCenterZ(room)>>,
         size |-> <<cellsToMeters(Cells(room.width)), 2, cellsToMeters(Cells(room.height))>>,
         color |-> OrElse(material.floorColor, defaultStyle.floorColor),
         tags |-> OrElse(room.tags, <<>>),
         floorTexture |-> OrElse(material.floorTexture, defaultStyle.floorTexture),
         wallTexture |-> OrElse(material.wallTexture, defaultStyle.wallTexture),
         wallColor |-> OrElse(material.wallColor, defaultStyle.wallColor)]

buildGridRooms(gridRooms) == [i \in DOMAIN gridRooms |-> GeometryRoom(gridRooms[i])]

WorldSegment(seg) ==
    [start |-> <<gridToWorldX(seg.startX), 0, gridToWorldZ(seg.startY)>>,
     end |-> <<gridToWorldX(seg.endX), 0, gridToWorldZ(seg.endY)>>]

\* The corridor's own segments when it has any, else its legacy fields.
convertCorridorSegments(c) ==
    IF Len(c.segments) > 0
    THEN [i \in DOMAIN c.segments |-> WorldSegment(c.segments[i])]
    ELSE <<WorldSegment(Seg(c.startX, c.startY, c.endX, c.endY))>>

GeometryCorridor(c) ==
    LET segments == convertCorridorSegments(c)
    IN  [id |-> c.id,
         segments |-> segments,
         width |-> cellsToMeters(WidthOr1(c)),
         color |-> "#3a3a3a",
         floorTexture |-> "stone_floor",
         start |-> segments[1].start,
         end |-> segments[Len(segments)].end]

buildGridCorridors(gridCorridors) ==
    [i \in DOMAIN gridCorridors |-> GeometryCorridor(gridCorridors[i])]

RoomOpening(side, position, width) == [side |-> side, position |-> position, width |-> width]

\* findRoomOpenings lines 378-414: the openings one segment makes in a room.
SegmentOpenings(room, seg, corridorWidthM) ==
    LET r == GridCells(room)
        roomMinX == r.gridX
        roomMaxX == r.gridX + r.width
        roomMinY == r.gridY
        roomMaxY == r.gridY + r.height
        isVertical == seg.startX = seg.endX
    IN  IF isVertical
        THEN IF seg.startX >= roomMinX /\ seg.startX <= roomMaxX
             THEN (IF seg.startY = roomMinY \/ seg.endY = roomMinY
                   THEN <<RoomOpening("north", gridToWorldX(seg.startX), corridorWidthM)>>
                   ELSE <<>>)
                  \o (IF seg.startY = roomMaxY \/ seg.endY = roomMaxY
                      THEN <<RoomOpening("south", gridToWorldX(seg.startX), corridorWidthM)>>
                      ELSE <<>>)
             ELSE <<>>
        ELSE IF seg.startY >= roomMinY /\ seg.startY <= roomMaxY
             THEN (IF seg.startX = roomMinX \/ seg.endX = roomMinX
                   THEN <<RoomOpening("west", gridToWorldZ(seg.startY), corridorWidthM)>>
                   ELSE <<>>)
                  \o (IF seg.startX = roomMaxX \/ seg.endX = roomMaxX
                      THEN <<RoomOpening("east", gridToWorldZ(seg.startY), corridorWidthM)>>
                      ELSE <<>>)
             ELSE <<>>

RECURSIVE SegmentsOpenings(_, _, _)
SegmentsOpenings(room, segments, corridorWidthM) ==
    IF segments = <<>> THEN <<>>
    ELSE SegmentOpenings(room, Head(segments), corridorWidthM)
         \o SegmentsOpenings(room, Tail(segments), corridorWidthM)

\* Lines 362-376: a corridor of another pair of rooms is skipped.
CorridorOpenings(room, c) ==
    IF c.fromRoom /= room.id /\ c.toRoom /= room.id THEN <<>>
    ELSE LET segments == IF c.segments = <<>>
                         THEN <<Seg(c.startX, c.startY, c.endX, c.endY)>>
                         ELSE c.segments
         IN  SegmentsOpenings(room, segments, cellsToMeters(WidthOr1(c)))

RECURSIVE findRoomOpenings(_, _)
findRoomOpenings(room, corridors) ==
    IF corridors = <<>> THEN <<>>
    ELSE CorridorOpenings(room, Head(corridors)) \o findRoomOpenings(room, Tail(corridors))

\* openings.filter(o => o.side === side)
OnSide(os, side) == LET Is(o) == o.side = side IN SelectSeq(os, Is)

\* A plausible slip: a side reserves one id per opening.
ReservedPerOpening(wallId, openings) == wallId + Len(openings)

\* wallId += openings.length + 1
Reserved(wallId, openings) == wallId + Len(openings) + 1

\* buildGridWalls lines 293-339, one room: the four sides, north, south,
\* west, east; each side reserves openings + 1 ids.
RoomWalls(ws, wallId, room, corridors) ==
    LET style == getRoomStyle(OrElse(room.tags, <<>>))
        r == GridCells(room)
        minX == gridToWorldX(r.gridX)
        maxX == gridToWorldX(r.gridX + r.width)
        minZ == gridToWorldZ(r.gridY)
        maxZ == gridToWorldZ(r.gridY + r.height)
        os == findRoomOpenings(room, corridors)
        northOpenings == OnSide(os, "north")
        southOpenings == OnSide(os, "south")
        westOpenings == OnSide(os, "west")
        eastOpenings == OnSide(os, "east")
        id1 == Reserved(wallId, northOpenings)
        id2 == Reserved(id1, southOpenings)
        id3 == Reserved(id2, westOpenings)
        id4 == Reserved(id3, eastOpenings)
        w1 == createWallWithOpenings(ws, wallId, <<minX, 0, minZ>>, <<maxX, 0, minZ>>,
                                     "x", northOpenings, style.wallColor)
        w2 == createWallWithOpenings(w1, id1, <<minX, 0, maxZ>>, <<maxX, 0, maxZ>>,
                                     "x", southOpenings, style.wallColor)
        w3 == createWallWithOpenings(w2, id2, <<minX, 0, minZ>>, <<minX, 0, maxZ>>,
                                     "z", westOpenings, style.wallColor)
        w4 == createWallWithOpenings(w3, id3, <<maxX, 0, minZ>>, <<maxX, 0, maxZ>>,
                                     "z", eastOpenings, style.wallColor)
    IN  [walls |-> w4, wallId |-> id4]

RECURSIVE WallsLoop(_, _, _, _)
WallsLoop(gridRooms, gridCorridors, ws, wallId) ==
    IF gridRooms = <<>> THEN ws
    ELSE LET done == RoomWalls(ws, wallId, Head(gridRooms), gridCorridors)
         IN  WallsLoop(Tail(gridRooms), gridCorridors, done.walls, done.wallId)

\* A plausible slip: the wall counter is kept by the service between calls.
buildGridWallsCounterKept(gridRooms, gridCorridors) ==
    WallsLoop(gridRooms, gridCorridors, <<>>,
              IF Has(scene) THEN Len(Get(scene).geometry.walls) ELSE 0)

buildGridWalls(gridRooms, gridCorridors) == WallsLoop(gridRooms, gridCorridors, <<>>, 0)

POI_COLORS ==
    "spawn" :> "#00ff00" @@ "goal" :> "#ff0000"
    @@ "treasure" :> "#ffd700" @@ "checkpoint" :> "#00bfff"

\* type.charAt(0).toUpperCase() + type.slice(1)
Capitalized(type) ==
    CASE type = "spawn" -> "Spawn"
      [] type = "goal" -> "Goal"
      [] type = "treasure" -> "Treasure"
      [] type = "checkpoint" -> "Checkpoint"
      [] OTHER -> type

\* buildGridPOIs, one POI.  The height 0.1 is held in tenths.
GeometryPOI(poi, rooms) ==
    LET room == FindId(rooms, poi.roomId)
    IN  [id |-> poi.id,
         type |-> poi.type,
         position |-> IF Has(room)
                      THEN <<RoomCenterX(Get(room)), 1, RoomCenterZ(Get(room))>>
                      ELSE <<0, 1, 0>>,
         color |-> IF poi.type \in DOMAIN POI_COLORS THEN POI_COLORS[poi.type] ELSE "#ffffff",
         label |-> Capitalized(poi.type),
         roomId |-> poi.roomId]

buildGridPOIs(pois, rooms) == [i \in DOMAIN pois |-> GeometryPOI(pois[i], rooms)]

buildGridGeometry(lv) ==
    [rooms |-> buildGridRooms(Get(lv.rooms)),
     corridors |-> buildGridCorridors(Get(lv.corridors)),
     walls |-> buildGridWalls(Get(lv.rooms), Get(lv.corridors)),
     poi_markers |-> buildGridPOIs(Get(lv.pois), Get(lv.rooms))]

\* Lines 652-688.  The camera's lengths are held in tenths of a metre (the
\* height is 0.8 times a length in metres); fov is in degrees.  A level with
\* no room leaves the bounds at their infinities: the centre is NaN.
Camera(position, target, max_distance) ==
    [default |-> [position |-> position, look_at |-> target, fov |-> 60],
     orbit_target |-> target,
     min_distance |-> 100,
     max_distance |-> max_distance]

\* Line 676: the distance, in metres.
cameraDistance(levelWidth, levelDepth) == Max(40, levelDepth)

configureGridCamera(lv) ==
    LET rooms == {GridCells(r) : r \in Range(Get(lv.rooms))}
        minX == CHOOSE m \in {gridToWorldX(r.gridX) : r \in rooms} :
                    \A r \in rooms : m <= gridToWorldX(r.gridX)
        maxX == CHOOSE m \in {gridToWorldX(r.gridX + r.width) : r \in rooms} :
                    \A r \in rooms : m >= gridToWorldX(r.gridX + r.width)
        minZ == CHOOSE m \in {gridToWorldZ(r.gridY) : r \in rooms} :
                    \A r \in rooms : m <= gridToWorldZ(r.gridY)
        maxZ == CHOOSE m \in {gridToWorldZ(r.gridY + r.height) : r \in rooms} :
                    \A r \in rooms : m >= gridToWorldZ(r.gridY + r.height)
        levelWidth == maxX - minX
        levelDepth == maxZ - minZ
        cameraHeight == Max(300, 8 * Max(levelWidth, levelDepth))
        distance == cameraDistance(levelWidth, levelDepth)
    IN  IF rooms = {}
        THEN Camera(<<"NaN", 300, "-Infinity">>, <<"NaN", 0, "NaN">>, 800)
        ELSE Camera(<<5 * (minX + maxX), cameraHeight, 10 * maxZ + 5 * distance>>,
                    <<5 * (minX + maxX), 0, 5 * (minZ + maxZ)>>,
                    20 * distance)

\* assemble(context, layout, assets, skybox): the geometry, the objects, the
\* camera and the skybox path of the SceneConfig.
assemble(ctx, lay, as, sky) ==
    [skybox_path |-> IF Has(sky) /\ Get(sky).status = "ready"
                     THEN Get(sky).path ELSE "",
     camera |-> configureGridCamera(Get(lay.level)),
     geometry |-> buildGridGeometry(Get(lay.level)),
     objects |-> positionGridObjects(Get(lay.level), as, ctx)]

(***************************************************************************)
(* One run of the assembler on a repaired level, and a second run on the   *)
(* same inputs.                                                            *)
(***************************************************************************)

\* Room shapes, in halves: A (0,0) 4x3; B (0,6) 4x3 below A with a gap;
\* C (4,1) 3x3 touching A's right edge; D (8,5) 4x3 aligned with neither;
\* E (2,1) 3x3 overlapping A.
AssembleShapes ==
    {Shape(0, 0, 8, 6, Some(<<"entry">>)),
     Shape(0, 12, 8, 6, None),
     Shape(8, 2, 6, 6, Some(<<"goal">>)),
     Shape(16, 10, 8, 6, Some(<<"mid">>)),
     Shape(4, 2, 6, 6, Some(<<"vault", "secret">>))}

AssembleCorridorLists ==
    {Some(<<>>),
     Some(<<RawCorridor("corr_1", "room_1", "room_2", 0, 7, 7, 9, 9)>>),
     Some(<<RawCorridor("corr_1", "room_2", "room_1", MaxWidthCells, 2, 3, 2, 6)>>),
     Some(<<RawCorridor("corr_1", "room_1", "room_2", 1, 0, 0, 0, 0),
            RawCorridor("corr_2", "room_2", "room_3", 1, 1, 1, 1, 4),
            RawCorridor("corr_3", "room_3", "room_1", MaxWidthCells, 0, 0, 0, 0)>>)}

AssembleRawLayouts ==
    {[level |-> Some([grid |-> None,
                      rooms |-> Some([i \in DOMAIN shapes |-> RawRoom(i, shapes[i])]),
                      corridors |-> corridors,
                      pois |-> pois,
                      criticalPath |-> None])] :
        shapes \in SeqUpTo(AssembleShapes, MaxRooms) \ SeqUpTo(AssembleShapes, 1),
        corridors \in AssembleCorridorLists,
        pois \in {None,
                  Some(<<Poi("poi_1", "spawn", "room_2"), Poi("poi_2", "goal", "room_1"),
                         Poi("poi_3", "treasure", "room_3")>>)}}

\* The levels the assembler receives from the pipeline: repaired ones.
AssembleLayouts == {validateAndFixLayout(l).layout : l \in AssembleRawLayouts}

GeneratedSkybox(status, path) == [status |-> status, path |-> path]
Skyboxes == {None, Some(GeneratedSkybox("ready", "/skybox/s.png")),
             Some(GeneratedSkybox("failed", ""))}

AssembleAssets ==
    {<<>>,
     <<GeneratedAsset("hero", "ready", "/models/m.glb"),
       GeneratedAsset("chest", "ready", "/models/m.glb"),
       GeneratedAsset("guard", "ready", "/models/m.glb")>>}

NotAssembling ==
    /\ fromRoom = None /\ toRoom = None /\ corridor = None
    /\ once = None /\ err = "none"
    /\ wall = None /\ walls = <<>>
    /\ objects = <<>>
    /\ SessionIdle

InitAssemble ==
    /\ pc = "assemble"
    /\ layout \in AssembleLayouts
    /\ given = layout
    /\ context = Some([characters |-> Cast, props |-> None])
    /\ assets \in AssembleAssets
    /\ skybox \in {None, Some(GeneratedSkybox("ready", "/skybox/s.png"))}
    /\ scene = None /\ scene2 = None /\ found = <<>>
    /\ NotAssembling

\* OrchestratorService line 111: assemble(gameContext, levelLayout, assets,
\* skybox).  `found` keeps the openings findRoomOpenings finds, for each
\* room and each corridor.
Assemble ==
    /\ pc = "assemble"
    /\ scene' = Some(assemble(Get(context), layout, assets, skybox))
    /\ found' = LET lv == Get(layout.level)
                IN  [i \in DOMAIN Get(lv.rooms) |->
                        [k \in DOMAIN Get(lv.corridors) |->
                            CorridorOpenings(Get(lv.rooms)[i], Get(lv.corridors)[k])]]
    /\ pc' = "assembled"
    /\ UNCHANGED <<layout, context, assets, objects, skybox, scene2, given, once, err,
                   routeVars, carveVars, sessionVars>>

\* assemble called again on the same level, for any context, assets and
\* skybox.
AssembleAgain ==
    /\ pc = "assembled"
    /\ \E ctx \in Contexts, as \in AssembleAssets, sky \in Skyboxes :
          scene2' = Some(assemble(ctx, layout, as, sky))
    /\ pc' = "assembled2"
    /\ UNCHANGED <<layout, context, assets, objects, skybox, scene, found, given, once, err,
                   routeVars, carveVars, sessionVars>>

NextAssemble == Assemble \/ AssembleAgain

SpecAssemble == InitAssemble /\ [][NextAssemble]_vars

(***************************************************************************)
(* Sessions and edits: SessionService, the generate handler of             *)
(* SessionGateway, the edit handler of ChatGateway and EditService.        *)
(*                                                                         *)
(* `sessions` holds every SessionState object created, in creation order;  *)
(* the session id is the position (the code draws a fresh uuid).  The      *)
(* field in_map tells whether the Map still holds the object: a handler    *)
(* that looked the session up before it was deleted keeps reading the      *)
(* object, while every setter looks the id up in the Map again.            *)
(*                                                                         *)
(* An edit handler is suspended at its awaits: the answer of the edit      *)
(* agent (processEdit) and the generation of a skybox (applyEdit).  The    *)
(* edits drawn change rooms, corridors and the skybox.  The services a     *)
(* pipeline awaits are taken to return: a pipeline that fails stores       *)
(* nothing and its session is never ready for an edit.                     *)
(***************************************************************************)
MaxSessions == 2
MaxEdits == 2

Progress(step, status) == [step |-> step, status |-> status]

createSessionState(sessionId) ==
    [session_id |-> sessionId,
     progress |-> Progress("idle", "pending"),
     game_context |-> None,
     level_layout |-> None,
     assets |-> <<>>,
     skybox |-> None,
     scene_config |-> None,
     error |-> None,
     in_map |-> TRUE]

createSession(ss) == Append(ss, createSessionState(Len(ss) + 1))

getSession(ss, sessionId) ==
    IF sessionId \in DOMAIN ss /\ ss[sessionId].in_map THEN Some(ss[sessionId]) ELSE None

updateProgress(ss, sessionId, step, status) ==
    IF ~Has(getSession(ss, sessionId)) THEN ss
    ELSE [ss EXCEPT ![sessionId].progress = Progress(step, status)]

setGameContext(ss, sessionId, ctx) ==
    IF ~Has(getSession(ss, sessionId)) THEN ss
    ELSE [ss EXCEPT ![sessionId].game_context = Some(ctx)]

setLevelLayout(ss, sessionId, lay) ==
    IF ~Has(getSession(ss, sessionId)) THEN ss
    ELSE [ss EXCEPT ![sessionId].level_layout = Some(lay)]

setAssets(ss, sessionId, as) ==
    IF ~Has(getSession(ss, sessionId)) THEN ss
    ELSE [ss EXCEPT ![sessionId].assets = as]

setSkybox(ss, sessionId, sky) ==
    IF ~Has(getSession(ss, sessionId)) THEN ss
    ELSE [ss EXCEPT ![sessionId].skybox = Some(sky)]

\* A plausible slip: the service keeps one current session, the last created.
setSceneConfigCurrent(ss, sessionId, sceneConfig) ==
    IF ~Has(getSession(ss, sessionId)) THEN ss
    ELSE [ss EXCEPT ![Len(ss)].scene_config = Some(sceneConfig)]

setSceneConfig(ss, sessionId, sceneConfig) ==
    IF ~Has(getSession(ss, sessionId)) THEN ss
    ELSE [ss EXCEPT ![sessionId].scene_config = Some(sceneConfig)]

markReady(ss, sessionId) ==
    IF ~Has(getSession(ss, sessionId)) THEN ss
    ELSE [ss EXCEPT ![sessionId].progress = Progress("ready", "done")]

markEditing(ss, sessionId) ==
    IF ~Has(getSession(ss, sessionId)) THEN ss
    ELSE [ss EXCEPT ![sessionId].progress = Progress("editing", "done")]

deleteSession(ss, sessionId) ==
    IF sessionId \in DOMAIN ss THEN [ss EXCEPT ![sessionId].in_map = FALSE] ELSE ss

CorridorIds == <<"corr_1", "corr_2", "corr_3", "corr_4", "corr_5", "corr_6", "corr_7", "corr_8">>

\* The changes of an edit: each list optional.
Changes(new_rooms, new_corridors, removed_room_ids, modified_rooms, skybox_prompt) ==
    [new_rooms |-> new_rooms, new_corridors |-> new_corridors,
     removed_room_ids |-> removed_room_ids, modified_rooms |-> modified_rooms,
     skybox_prompt |-> skybox_prompt]
NoChanges == Changes(None, None, None, None, None)

EditResult(changes, requires_api_call, api_params, status) ==
    [changes |-> changes, requires_api_call |-> requires_api_call,
     api_params |-> api_params, status |-> status]

\* x || 3 on a number: 3 when x is 0.
Or3(h) == IF h = 0 THEN Num(3) ELSE h

\* processChanges, lines 253-262: one new room.
ProcessedRoom(room, level) ==
    [id |-> OrElse(room.id, RoomIds[Len(Get(level.rooms)) + 1]),
     gridX |-> MathRound(room.gridX),
     gridY |-> MathRound(room.gridY),
     width |-> Max(Num(2), MathRound(Or3(room.width))),
     height |-> Max(Num(2), MathRound(Or3(room.height))),
     tags |-> Some(OrElse(room.tags, <<"mid">>)),
     material |-> None]

\* processChanges, lines 266-277: one new corridor.  It has no segments.
ProcessedCorridor(c, level) ==
    RawCorridor(OrElse(c.id, CorridorIds[Len(Get(level.corridors)) + 1]),
                c.fromRoom, c.toRoom,
                IF c.widthCells = 0 THEN 1 ELSE c.widthCells,
                Cells(MathRound(c.startX)), Cells(MathRound(c.startY)),
                Cells(MathRound(c.endX)), Cells(MathRound(c.endY)))

processChanges(changes, lay) ==
    LET level == Get(lay.level)
    IN  [changes EXCEPT
            !.new_rooms =
                IF Has(changes.new_rooms)
                THEN Some([i \in DOMAIN Get(changes.new_rooms) |->
                              ProcessedRoom(Get(changes.new_rooms)[i], level)])
                ELSE None,
            !.new_corridors =
                IF Has(changes.new_corridors)
                THEN Some([i \in DOMAIN Get(changes.new_corridors) |->
                              ProcessedCorridor(Get(changes.new_corridors)[i], level)])
                ELSE None]

\* processEdit once the edit agent has answered; `response` is None when
\* the call threw.
processEdit(response, lay) ==
    IF ~Has(response) THEN EditResult(NoChanges, FALSE, None, "failed")
    ELSE EditResult(processChanges(Get(response).changes, lay),
                    Get(response).requires_api_call,
                    Get(response).api_params, "pending")

\* {...existing.material, ...mod.material}
MergeMaterial(existing, mod) ==
    LET a == OrElse(existing, EmptyMaterial)
        b == OrElse(mod, EmptyMaterial)
    IN  [f \in DOMAIN a |-> IF Has(b[f]) THEN b[f] ELSE a[f]]

\* EditService.applyEdit, lines 386-403: the room modifications, in order.
RECURSIVE ModifyRooms(_, _)
ModifyRooms(rooms, mods) ==
    IF mods = <<>> THEN rooms
    ELSE LET mod == Head(mods)
             hits == {i \in DOMAIN rooms : rooms[i].id = mod.id}
         IN  IF hits = {} THEN ModifyRooms(rooms, Tail(mods))
             ELSE LET roomIndex == CHOOSE i \in hits : \A j \in hits : i <= j
                      existingRoom == rooms[roomIndex]
                  IN  ModifyRooms(
                          [rooms EXCEPT ![roomIndex] =
                              [existingRoom EXCEPT
                                  !.tags = IF Has(mod.tags) THEN mod.tags ELSE @,
                                  !.material = Some(MergeMaterial(@, mod.material))]],
                          Tail(mods))

\* array.filter((x) => !ids.includes(x.id))
RECURSIVE WithoutIds(_, _)
WithoutIds(seq, ids) ==
    IF seq = <<>> THEN <<>>
    ELSE (IF Head(seq).id \in ids THEN <<>> ELSE <<Head(seq)>>) \o WithoutIds(Tail(seq), ids)

\* EditService.applyEdit(sceneConfig, layout, editResult): the new scene
\* config and the new layout.
applyEdit(sceneConfig, lay, editResult) ==
    LET level == Get(lay.level)
        ch == editResult.changes
        removed == Range(OrElse(ch.removed_room_ids, <<>>))
        rooms == WithoutIds(Get(level.rooms) \o OrElse(ch.new_rooms, <<>>), removed)
        corridors == Get(level.corridors) \o OrElse(ch.new_corridors, <<>>)
    IN  [sceneConfig |-> sceneConfig,
         layout |-> [level |-> Some(
             [level EXCEPT
                 !.rooms = Some(ModifyRooms(rooms, OrElse(ch.modified_rooms, <<>>))),
                 !.corridors = Some(corridors)])]]

\* Lines 232-240: the objects of the new config, then those of the old one
\* whose id the new config does not have.
MergeObjects(newObjects, oldObjects) ==
    newObjects \o WithoutIds(oldObjects, {newObjects[i].id : i \in DOMAIN newObjects})

WithObjects(newConfig, oldObjects) ==
    [newConfig EXCEPT !.objects = MergeObjects(@, oldObjects)]

\* Lines 223-240: the scene assembled again from the session's context,
\* assets and skybox, and merged with the objects of the old config.
Reassemble(session, lay, oldObjects) ==
    WithObjects(assemble(Get(session.game_context), lay, session.assets, session.skybox),
                oldObjects)

\* Lines 207-243, `result` being what EditService.applyEdit returned.
Reassembled(ss, sessionId, editResult, result) ==
    LET ch == editResult.changes
        needsReassembly == \/ Has(ch.new_rooms) \/ Has(ch.new_corridors)
                           \/ Has(ch.modified_rooms) \/ Has(ch.removed_room_ids)
        session == getSession(ss, sessionId)
    IN  IF needsReassembly /\ Has(session) /\ Has(Get(session).game_context)
        THEN [sessions |-> setLevelLayout(ss, sessionId, result.layout),
              config |-> Reassemble(Get(session), result.layout, result.sceneConfig.objects)]
        ELSE [sessions |-> ss, config |-> result.sceneConfig]

\* ChatGateway.applyEdit from line 205 on, once the awaits are over: the
\* sessions as it leaves them and the config it returns.
gatewayApplyEdit(ss, sessionId, editResult, updatedConfig, updatedLayout) ==
    IF ~Has(updatedLayout) THEN [sessions |-> ss, config |-> updatedConfig]
    ELSE Reassembled(ss, sessionId, editResult,
                     applyEdit(updatedConfig, Get(updatedLayout), editResult))

\* The level the pipeline hands over, before its repair.  Rooms, in
\* halves: (0,0) 4x3 entry, (0,6) 4x3, (8,5) 4x3 mid.
EditRawLayouts ==
    {[level |-> Some([grid |-> None,
                      rooms |-> Some(<<RawRoom(1, Shape(0, 0, 8, 6, Some(<<"entry">>))),
                                       RawRoom(2, Shape(0, 12, 8, 6, None)),
                                       RawRoom(3, Shape(16, 10, 8, 6, Some(<<"mid">>)))>>),
                      corridors |-> Some(<<RawCorridor("corr_1", "room_1", "room_2", 1, 0, 0, 0, 0),
                                           RawCorridor("corr_2", "room_2", "room_3", 1, 0, 0, 0, 0)>>),
                      pois |-> None,
                      criticalPath |-> None])]}

\* What a successful pipeline returns (PipelineResult).
PipelineResults ==
    {LET ctx == [characters |-> Cast, props |-> None]
         lay == validateAndFixLayout(raw).layout
         as == <<GeneratedAsset("hero", "ready", "/models/m.glb")>>
         sky == GeneratedSkybox("ready", "/skybox/s.png")
     IN  [gameContext |-> ctx, levelLayout |-> lay, assets |-> as, skybox |-> sky,
          sceneConfig |-> assemble(ctx, lay, as, Some(sky))] :
        raw \in EditRawLayouts}

\* What the edit agent answers (RawEditResponse): a room at (8,0) 2.5x0 with
\* a corridor to it from room_1, drawn from (5,7.5) to (16,7.5); room_2
\* removed and a wall colour for room_1; a new skybox.
RawEditResponses ==
    {[changes |-> Changes(
          Some(<<[id |-> Some("room_4"), gridX |-> 16, gridY |-> 0, width |-> 5,
                  height |-> 0, tags |-> None]>>),
          Some(<<[id |-> None, fromRoom |-> "room_1", toRoom |-> "room_4",
                  startX |-> 10, startY |-> 15, endX |-> 32, endY |-> 15,
                  widthCells |-> 0]>>),
          None, None, None),
      requires_api_call |-> FALSE, api_params |-> None],
     [changes |-> Changes(None, None, Some(<<"room_2">>),
                          Some(<<[id |-> "room_1", tags |-> None,
                                  material |-> Some(RoomMaterial(None, Some("#aa3333"),
                                                                 None, None))]>>),
                          None),
      requires_api_call |-> FALSE, api_params |-> None],
     [changes |-> Changes(None, None, None, None, Some("stormy sky")),
      requires_api_call |-> TRUE,
      api_params |-> Some([type |-> "blockade", prompt |-> "stormy sky"])]}

\* A handleEdit invocation: where it stands and what it holds.
Task(session_id, at, startLayout, editResult, currentConfig, currentLayout) ==
    [session_id |-> session_id, pc |-> at, startLayout |-> startLayout,
     editResult |-> editResult, currentConfig |-> currentConfig,
     currentLayout |-> currentLayout]

\* executePipeline: the steps it awaits, in order.
PIPELINE == <<"context", "layout", "generation">>

\* Where the pipeline of a session stands, 0 once it is over.
PipelineAt(session) ==
    IF session.progress.status = "running"
       /\ \E i \in DOMAIN PIPELINE : PIPELINE[i] = session.progress.step
    THEN CHOOSE i \in DOMAIN PIPELINE : PIPELINE[i] = session.progress.step
    ELSE 0

EditIdle ==
    /\ fromRoom = None /\ toRoom = None /\ corridor = None
    /\ layout = None /\ given = None /\ once = None /\ err = "none"
    /\ wall = None /\ walls = <<>>
    /\ context = None /\ assets = <<>> /\ objects = <<>>
    /\ AssembleIdle

InitEdit ==
    /\ pc = "serving"
    /\ sessions = <<>> /\ tasks = <<>>
    /\ chats = <<>> /\ emitted = <<>>
    /\ EditIdle

\* SessionGateway.handleGenerate, lines 63-77, and executePipeline up to
\* its first await: a session is created and the context step starts.
HandleGenerate ==
    /\ pc = "serving"
    /\ Len(sessions) < MaxSessions
    /\ sessions' = updateProgress(createSession(sessions), Len(sessions) + 1,
                                  PIPELINE[1], "running")
    /\ UNCHANGED <<pc, tasks, chatVars, routeVars, repairVars, carveVars, placeVars, assembleVars>>

\* executePipeline, lines 61-77: an awaited step returns, the step is
\* reported done and the next one running.
PipelineStep(sessionId) ==
    /\ pc = "serving"
    /\ sessionId \in DOMAIN sessions
    /\ PipelineAt(sessions[sessionId]) \in 1..(Len(PIPELINE) - 1)
    /\ LET at == PipelineAt(sessions[sessionId])
       IN  sessions' = updateProgress(
                           updateProgress(sessions, sessionId, PIPELINE[at], "done"),
                           sessionId, PIPELINE[at + 1], "running")
    /\ UNCHANGED <<pc, tasks, chatVars, routeVars, repairVars, carveVars, placeVars, assembleVars>>

\* executePipeline, lines 98-129, and handleGenerate, lines 102-128: the
\* assets and the skybox are generated, the scene is assembled, the
\* results are stored and the session is marked ready.
StoreResults(sessionId) ==
    /\ pc = "serving"
    /\ sessionId \in DOMAIN sessions
    /\ PipelineAt(sessions[sessionId]) = Len(PIPELINE)
    /\ \E result \in PipelineResults :
          sessions' =
              markReady(
                  setSceneConfig(
                      setSkybox(
                          setAssets(
                              setLevelLayout(
                                  setGameContext(
                                      updateProgress(
                                          updateProgress(sessions, sessionId,
                                                         "generation", "done"),
                                          sessionId, "assembly", "done"),
                                      sessionId, result.gameContext),
                                  sessionId, result.levelLayout),
                              sessionId, result.assets),
                          sessionId, result.skybox),
                      sessionId, result.sceneConfig),
                  sessionId)
    /\ UNCHANGED <<pc, tasks, chatVars, routeVars, repairVars, carveVars, placeVars, assembleVars>>

\* SessionService.deleteSession, as cleanupOldSessions deletes: a session
\* not updated for an hour, its pipeline long over.
DeleteSession(sessionId) ==
    /\ pc = "serving"
    /\ Has(getSession(sessions, sessionId))
    /\ PipelineAt(sessions[sessionId]) = 0
    /\ sessions' = deleteSession(sessions, sessionId)
    /\ UNCHANGED <<pc, tasks, chatVars, routeVars, repairVars, carveVars, placeVars, assembleVars>>

\* ChatGateway.handleEdit, lines 47-77, up to the call of processEdit, as
\* far as the sessions go.  A session that is not ready is refused.
HandleEditSessions(sessionId) ==
    /\ pc = "serving"
    /\ Len(tasks) < MaxEdits
    /\ LET session == getSession(sessions, sessionId)
       IN  IF \/ ~Has(session)
              \/ ~Has(Get(session).game_context)
              \/ ~Has(Get(session).level_layout)
              \/ ~Has(Get(session).scene_config)
           THEN tasks' = tasks
           ELSE tasks' = Append(tasks, Task(sessionId, "processEdit",
                                            Get(session).level_layout, None, None, None))
    /\ UNCHANGED <<pc, sessions, routeVars, repairVars, carveVars, placeVars, assembleVars>>

\* handleEdit, lines 95-96: the config applyEdit returned is stored.
StoreConfig(applied, sessionId) ==
    markEditing(setSceneConfig(applied.sessions, sessionId, applied.config), sessionId)

\* applyEdit from line 205 on, then handleEdit, lines 95-96: the sessions
\* once the edit has stored its config.
Finish(ss, sessionId, editResult, updatedConfig, updatedLayout) ==
    StoreConfig(gatewayApplyEdit(ss, sessionId, editResult, updatedConfig, updatedLayout),
                sessionId)

\* A handleEdit invocation that has returned holds nothing.
Done == Task(0, "done", None, None, None, None)

\* What the edit agent's call gives: an answer, or None when it threw.
EditResponses == {None} \cup {Some(r) : r \in RawEditResponses}

\* What generateCustomSkybox returns.
CustomSkyboxes ==
    {GeneratedSkybox("ready", "/skybox/custom.png"), GeneratedSkybox("failed", "")}

\* handleEdit, lines 79-92, as far as the sessions go: the edit agent has
\* answered; applyEdit is called with the config and the layout the session
\* object holds now, and runs up to its await, or to its end when it has
\* none.
EditProcessedSessions(t, response) ==
    /\ pc = "serving"
    /\ t \in DOMAIN tasks
    /\ tasks[t].pc = "processEdit"
    /\ LET task == tasks[t]
           session == sessions[task.session_id]
           editResult == processEdit(response, Get(task.startLayout))
           currentConfig == Get(session.scene_config)
           currentLayout == session.level_layout
       IN  IF /\ editResult.requires_api_call
              /\ Has(editResult.api_params)
              /\ Get(editResult.api_params).type = "blockade"
           THEN /\ tasks' = [tasks EXCEPT ![t] =
                                Task(task.session_id, "generateCustomSkybox", None,
                                     Some(editResult), Some(currentConfig), currentLayout)]
                /\ UNCHANGED sessions
           ELSE /\ sessions' = Finish(sessions, task.session_id, editResult,
                                       currentConfig, currentLayout)
                /\ tasks' = [tasks EXCEPT ![t] = Done]
    /\ UNCHANGED <<pc, routeVars, repairVars, carveVars, placeVars, assembleVars>>

\* applyEdit, lines 185-203, as far as the sessions go: the skybox is
\* generated, or fails.
SkyboxGeneratedSessions(t, sky) ==
    /\ pc = "serving"
    /\ t \in DOMAIN tasks
    /\ tasks[t].pc = "generateCustomSkybox"
    /\ LET task == tasks[t]
           updatedConfig == IF sky.status = "ready"
                            THEN [Get(task.currentConfig) EXCEPT !.skybox_path = sky.path]
                            ELSE Get(task.currentConfig)
       IN  /\ sessions' = Finish(sessions, task.session_id, Get(task.editResult),
                                  updatedConfig, task.currentLayout)
           /\ tasks' = [tasks EXCEPT ![t] = Done]
    /\ UNCHANGED <<pc, routeVars, repairVars, carveVars, placeVars, assembleVars>>

\* The three steps of handleEdit with the sessions followed and the chat
\* left aside; SpecChat below follows both.
HandleEdit(sessionId) == HandleEditSessions(sessionId) /\ UNCHANGED chatVars

EditProcessed(t) ==
    \E response \in EditResponses : EditProcessedSessions(t, response) /\ UNCHANGED chatVars

SkyboxGenerated(t) ==
    \E sky \in CustomSkyboxes : SkyboxGeneratedSessions(t, sky) /\ UNCHANGED chatVars

NextEdit ==
    \/ HandleGenerate
    \/ \E sessionId \in 1..MaxSessions : PipelineStep(sessionId)
    \/ \E sessionId \in 1..MaxSessions : StoreResults(sessionId)
    \/ \E sessionId \in 1..MaxSessions : DeleteSession(sessionId)
    \/ \E sessionId \in 1..MaxSessions : HandleEdit(sessionId)
    \/ \E t \in 1..MaxEdits : EditProcessed(t)
    \/ \E t \in 1..MaxEdits : SkyboxGenerated(t)

SpecEdit == InitEdit /\ [][NextEdit]_vars

(***************************************************************************)
(* The same service with the chat of each session and the events sent to   *)
(* the client followed too.  An edit is named by the position of its       *)
(* invocation in `tasks` (the code draws a uuid); the EditResult object    *)
(* the chat refers to is held as its id and status.                        *)
(***************************************************************************)

\* The EditResult as the chat and the events carry it.
EditOf(id, status) == [id |-> id, status |-> status]
ChatMessage(role, edit_result) == [role |-> role, edit_result |-> edit_result]
Event(name, edit_result) == [name |-> name, edit_result |-> edit_result]

\* createChatState: the welcome message, nothing in process.
createChatState(sessionId) ==
    [session_id |-> sessionId,
     messages |-> <<ChatMessage("assistant", None)>>,
     is_processing |-> FALSE,
     current_edit |-> None]

\* chats.get(sessionId)
getChat(cs, sessionId) == IF sessionId \in DOMAIN cs THEN cs[sessionId] ELSE None

getOrCreateChat(cs, sessionId) ==
    IF Has(getChat(cs, sessionId)) THEN cs
    ELSE [k \in 1..Max(Len(cs), sessionId) |->
             IF k = sessionId THEN Some(createChatState(sessionId)) ELSE getChat(cs, k)]

\* addUserMessage and addAssistantMessage: messages.push(message).
addMessage(cs, sessionId, message) ==
    [getOrCreateChat(cs, sessionId) EXCEPT
        ![sessionId] = Some([Get(@) EXCEPT !.messages = Append(@, message)])]

setProcessing(cs, sessionId, isProcessing) ==
    IF ~Has(getChat(cs, sessionId)) THEN cs
    ELSE [cs EXCEPT ![sessionId] = Some([Get(@) EXCEPT !.is_processing = isProcessing])]

setCurrentEdit(cs, sessionId, editResult) ==
    IF ~Has(getChat(cs, sessionId)) THEN cs
    ELSE [cs EXCEPT ![sessionId] = Some([Get(@) EXCEPT !.current_edit = editResult])]

\* editResult.status = status (the object current_edit and the messages
\* refer to) and updateEditStatus: every reference to the edit shows the
\* status.
updateEditStatus(cs, sessionId, editId, status) ==
    IF ~Has(getChat(cs, sessionId)) THEN cs
    ELSE LET chat == Get(cs[sessionId])
             Updated(e) == IF Has(e) /\ Get(e).id = editId
                           THEN Some(EditOf(editId, status)) ELSE e
         IN  [cs EXCEPT ![sessionId] = Some(
                 [chat EXCEPT
                     !.current_edit = Updated(@),
                     !.messages = [k \in DOMAIN @ |->
                                      [@[k] EXCEPT !.edit_result = Updated(@)]]])]

\* handleEdit, lines 98-131, once applyEdit has returned: the edit is
\* completed, the assistant's message added, then the finally block.
Completed(cs, sessionId, editId) ==
    setCurrentEdit(
        setProcessing(
            addMessage(updateEditStatus(cs, sessionId, editId, "completed"), sessionId,
                       ChatMessage("assistant", Some(EditOf(editId, "completed")))),
            sessionId, FALSE),
        sessionId, None)

\* Lines 103-117: what the client is sent once applyEdit has returned.
CompletedEvents(editId) ==
    <<Event("chat_message", Some(EditOf(editId, "completed"))),
      Event("scene_updated", None),
      Event("edit_applied", Some(EditOf(editId, "completed")))>>

\* handleEdit, lines 58-77.
ChatHandleEdit(sessionId) ==
    /\ HandleEditSessions(sessionId)
    /\ IF tasks' = tasks
       THEN /\ emitted' = <<Event("edit_error", None)>>
            /\ UNCHANGED chats
       ELSE /\ chats' = setProcessing(
                            addMessage(chats, sessionId, ChatMessage("user", None)),
                            sessionId, TRUE)
            /\ emitted' = <<Event("chat_message", None), Event("edit_started", None)>>

\* handleEdit, lines 79-131.
ChatEditProcessed(t) ==
    \E response \in EditResponses :
        /\ EditProcessedSessions(t, response)
        /\ LET sessionId == tasks[t].session_id
               preview == EditOf(t, processEdit(response, Get(tasks[t].startLayout)).status)
               current == setCurrentEdit(chats, sessionId, Some(preview))
           IN  IF tasks'[t] = Done
               THEN /\ chats' = Completed(current, sessionId, t)
                    /\ emitted' = <<Event("edit_preview", Some(preview))>>
                                      \o CompletedEvents(t)
               ELSE /\ chats' = current
                    /\ emitted' = <<Event("edit_preview", Some(preview)),
                                    Event("edit_asset_progress", None)>>

\* applyEdit, lines 185-203, then handleEdit, lines 95-131.
ChatSkyboxGenerated(t) ==
    \E sky \in CustomSkyboxes :
        /\ SkyboxGeneratedSessions(t, sky)
        /\ chats' = Completed(chats, tasks[t].session_id, t)
        /\ emitted' = CompletedEvents(t)

NextChat ==
    \/ HandleGenerate
    \/ \E sessionId \in 1..MaxSessions : PipelineStep(sessionId)
    \/ \E sessionId \in 1..MaxSessions : StoreResults(sessionId)
    \/ \E sessionId \in 1..MaxSessions : DeleteSession(sessionId)
    \/ \E sessionId \in 1..MaxSessions : ChatHandleEdit(sessionId)
    \/ \E t \in 1..MaxEdits : ChatEditProcessed(t)
    \/ \E t \in 1..MaxEdits : ChatSkyboxGenerated(t)

SpecChat == InitEdit /\ [][NextChat]_vars

(***************************************************************************)
(* Claims about object placement, checked under SpecPlace.                 *)
(***************************************************************************)
PlacedRooms == Get(Get(layout.level).rooms)
Ctx == Get(context)
Ready(asset) == asset.status = "ready" /\ asset.path /= ""
IsCharacter(asset) == \E i \in DOMAIN Ctx.characters : Ctx.characters[i].id = asset.id
RoleOf(asset) == Get(FindId(Ctx.characters, asset.id)).role
PropOf(asset) ==
    IF Has(Ctx.props) THEN FindId(Get(Ctx.props), asset.id) ELSE None
NoRoomTagged(tag) == \A i \in DOMAIN PlacedRooms : ~HasTag(PlacedRooms[i], tag)

\* The asset's target tag matches no room: a secondary character with no
\* room tagged "mid", or a prop whose first placement tag no room carries.
Unplaceable(asset) ==
    \/ IsCharacter(asset) /\ RoleOf(asset) = "npc" /\ NoRoomTagged("mid")
    \/ ~IsCharacter(asset) /\ Has(PropOf(asset)) /\ NoRoomTagged(TargetTag(Get(PropOf(asset))))

\* C10: a ready object whose target tag matches no room does not appear in
\* the returned object list.
C10_UnplaceableSkipped ==
    (pc = "placed") =>
        \A i \in DOMAIN assets :
            (Ready(assets[i]) /\ Unplaceable(assets[i])) =>
                \A k \in DOMAIN objects : objects[k].reference_id /= assets[i].id

(***************************************************************************)
(* Claims about repair, checked under Spec.                                *)
(***************************************************************************)
Lv == Get(layout.level)
GivenLv == Get(given.level)
Corridors == Get(Lv.corridors)
Pois == Get(Lv.pois)
CountType(pois, type) == Cardinality({i \in DOMAIN pois : pois[i].type = type})

Vertical(seg) == seg.startX = seg.endX
Horizontal(seg) == seg.startY = seg.endY

\* The generator's answer had a level with at least 2 rooms.
GivenTwoRooms == Has(given.level) /\ ~RoomsMissing(GivenLv)

\* C4: after repair every segment of every corridor is vertical or
\* horizontal and not both.
C4_SegmentsStraight ==
    (pc = "repaired") =>
        \A i \in DOMAIN Corridors : \A k \in DOMAIN Corridors[i].segments :
            Vertical(Corridors[i].segments[k]) /= Horizontal(Corridors[i].segments[k])

\* C5: repair applied to the result of repair returns that result.
C5_RepairIdempotent ==
    (pc \in {"repaired2", "failed2"}) => (err = "none" /\ layout = Get(once))

\* A second repair of a layout whose first repair moved rooms, dropped a
\* corridor and replaced the POIs.
C5_Witness ==
    /\ pc = "repaired2"
    /\ Lv.rooms /= GivenLv.rooms
    /\ Len(Corridors) < Len(Get(GivenLv.corridors))
    /\ Len(Corridors) > 0
    /\ Lv.pois /= GivenLv.pois
    /\ ~Has(GivenLv.grid)

\* C6: after repair the POI list holds exactly one spawn and exactly one goal.
C6_OneSpawnOneGoal ==
    (pc = "repaired") => (CountType(Pois, "spawn") = 1 /\ CountType(Pois, "goal") = 1)

\* C7: repair throws "missing level" exactly when the level is absent and
\* "at least 2 rooms" exactly when the level is there and its rooms are
\* absent or fewer than 2; when it throws either, the layout is as given.
C7_StructuralErrors ==
    (pc \in {"repaired", "failed"}) =>
        /\ (err = MissingLevel) <=> ~Has(given.level)
        /\ (err = TooFewRooms) <=>
               (Has(given.level) /\ (~Has(GivenLv.rooms) \/ Len(Get(GivenLv.rooms)) < 2))
        /\ (err \in {MissingLevel, TooFewRooms}) => (layout = given)

\* repair has thrown on a level with one room and no grid config.
C7_Witness ==
    /\ pc = "failed"
    /\ err = TooFewRooms
    /\ Has(GivenLv.rooms) /\ Len(Get(GivenLv.rooms)) = 1
    /\ ~Has(GivenLv.grid)

\* The rooms the generator returned and the rooms repair left, by position.
GivenRooms == Get(GivenLv.rooms)
Rooms == Get(Lv.rooms)

\* v (in halves) is an integer nearest to the number h (in halves).
Nearest(v, h) == v % 2 = 0 /\ v - 1 <= h /\ h <= v + 1
\* ... the one away from zero when h is halfway between two integers.
NearestAway(v, h) ==
    /\ Nearest(v, h)
    /\ (h % 2 = 1) => (IF h > 0 THEN v > h ELSE v < h)
\* ... the greater one when h is halfway between two integers.
NearestUp(v, h) == Nearest(v, h) /\ ((h % 2 = 1) => v > h)

\* v is max(2, round(h)), for each of the two roundings.
ClampedAway(v, h) == \E r \in {h - 1, h, h + 1} : NearestAway(r, h) /\ v = Max(Num(2), r)
ClampedUp(v, h) == \E r \in {h - 1, h, h + 1} : NearestUp(r, h) /\ v = Max(Num(2), r)

TagsCoerced(i) == ~Has(GivenRooms[i].tags) => Rooms[i].tags = Some(<<"mid">>)

\* C17 as stated: after repair every room's gridX and gridY are the nearest
\* integers to the given ones, halves rounded away from zero; width and
\* height are max(2, round(value)); a room given without tags has ["mid"].
C17_RoomCoercion ==
    (pc = "repaired") =>
        \A i \in DOMAIN Rooms :
            /\ NearestAway(Rooms[i].gridX, GivenRooms[i].gridX)
            /\ NearestAway(Rooms[i].gridY, GivenRooms[i].gridY)
            /\ ClampedAway(Rooms[i].width, GivenRooms[i].width)
            /\ ClampedAway(Rooms[i].height, GivenRooms[i].height)
            /\ TagsCoerced(i)

\* C17 amended: the same with halves rounded towards positive infinity
\* (2.5 -> 3 and -2.5 -> -2).
C17_RoomCoercionHalfUp ==
    (pc = "repaired") =>
        /\ Len(Rooms) = Len(GivenRooms)
        /\ \A i \in DOMAIN Rooms :
              /\ Rooms[i].id = GivenRooms[i].id
              /\ NearestUp(Rooms[i].gridX, GivenRooms[i].gridX)
              /\ NearestUp(Rooms[i].gridY, GivenRooms[i].gridY)
              /\ ClampedUp(Rooms[i].width, GivenRooms[i].width)
              /\ ClampedUp(Rooms[i].height, GivenRooms[i].height)
              /\ TagsCoerced(i)
              /\ Has(GivenRooms[i].tags) => Rooms[i].tags = GivenRooms[i].tags

\* A repaired level whose first room was given at (0.5, -2.5) with sides
\* 3.5 x 1 and whose second room was given at (-7, 2.5) with sides 2.5 x 1.5
\* and a third without tags.
C17_Witness ==
    /\ pc = "repaired"
    /\ Len(Rooms) = 3
    /\ GivenRooms[1].gridX = 1 /\ GivenRooms[1].gridY = -5
    /\ Rooms[1].gridX = Num(1) /\ Rooms[1].gridY = Num(-2)
    /\ Rooms[1].width = Num(4) /\ Rooms[1].height = Num(2)
    /\ GivenRooms[2].gridY = 5 /\ Rooms[2].gridY = Num(3)
    /\ ~Has(GivenRooms[3].tags) /\ Rooms[3].tags = Some(<<"mid">>)

\* The corridors the generator returned; those of them whose two endpoints
\* name a room of the level.
GivenCorridors == Get(GivenLv.corridors)
RoomNames == {Rooms[i].id : i \in DOMAIN Rooms}
Resolved == {i \in DOMAIN GivenCorridors :
                GivenCorridors[i].fromRoom \in RoomNames /\ GivenCorridors[i].toRoom \in RoomNames}
\* The repaired room of that name, in integer cells.
RoomNamed(id) == GridCells(Rooms[CHOOSE i \in DOMAIN Rooms : Rooms[i].id = id])
\* The input corridor the k-th repaired corridor comes from: the k-th of
\* the resolved ones.
SourceOf(k) == CHOOSE i \in Resolved : Cardinality({j \in Resolved : j <= i}) = k

\* C18: the repaired corridors are the input corridors with both endpoints
\* resolved, in their order and with their ids and endpoints; each carries
\* the segments the router computes from the repaired rooms, and its legacy
\* coordinates are the ends of those segments, not the input's.
C18_CorridorsRebuilt ==
    (pc = "repaired") =>
        /\ Len(Corridors) = Cardinality(Resolved)
        /\ \A k \in DOMAIN Corridors :
              LET c == Corridors[k]
                  g == GivenCorridors[SourceOf(k)]
                  segments == RouteSegments(Edges(RoomNamed(g.fromRoom)),
                                            Edges(RoomNamed(g.toRoom)))
              IN  /\ c.id = g.id
                  /\ c.fromRoom = g.fromRoom /\ c.toRoom = g.toRoom
                  /\ c.segments = segments
                  /\ <<c.startX, c.startY>> = <<segments[1].startX, segments[1].startY>>
                  /\ <<c.endX, c.endY>> =
                         <<segments[Len(segments)].endX, segments[Len(segments)].endY>>

\* Two corridors given, the first to a room that does not exist: repair
\* returns the second alone, routed between rooms that repair moved, its
\* coordinates no longer the given ones.
C18_Witness ==
    /\ pc = "repaired"
    /\ err = "none"
    /\ Len(GivenCorridors) = 2
    /\ GivenCorridors[1].toRoom \notin RoomNames
    /\ Len(Corridors) = 1
    /\ Corridors[1].id = GivenCorridors[2].id
    /\ Rooms[2] /= GivenRooms[2]
    /\ <<Corridors[1].startX, Corridors[1].startY>> /=
           <<GivenCorridors[2].startX, GivenCorridors[2].startY>>

\* The POI list of the generator's answer calls for the default POIs:
\* absent or shorter than 2, or without a spawn, or without a goal.
GivenPois == GivenLv.pois
PoisLacking ==
    \/ ~Has(GivenPois)
    \/ Len(Get(GivenPois)) < 2
    \/ \A i \in DOMAIN Get(GivenPois) : Get(GivenPois)[i].type /= "spawn"
    \/ \A i \in DOMAIN Get(GivenPois) : Get(GivenPois)[i].type /= "goal"

\* id names the first room tagged `tag`, or the room at `fallback` when no
\* room carries the tag.
FirstTaggedOr(id, tag, fallback) ==
    \/ \E i \in DOMAIN Rooms :
          /\ HasTag(Rooms[i], tag)
          /\ \A j \in 1..(i - 1) : ~HasTag(Rooms[j], tag)
          /\ id = Rooms[i].id
    \/ /\ \A i \in DOMAIN Rooms : ~HasTag(Rooms[i], tag)
       /\ id = Rooms[fallback].id

\* C19: when the given POIs are fewer than 2 or lack a spawn or a goal, the
\* repaired list is exactly a spawn in the first room tagged "entry" (else
\* the first room) and a goal in the first room tagged "goal" (else the last
\* room); otherwise the list is the given one.
C19_DefaultPois ==
    (pc = "repaired") =>
        IF PoisLacking
        THEN /\ Len(Pois) = 2
             /\ Pois[1].type = "spawn" /\ FirstTaggedOr(Pois[1].roomId, "entry", 1)
             /\ Pois[2].type = "goal" /\ FirstTaggedOr(Pois[2].roomId, "goal", Len(Rooms))
             /\ CountType(Pois, "spawn") = 1 /\ CountType(Pois, "goal") = 1
        ELSE Pois = Get(GivenPois)

\* Scenario D with the goal room in the middle: 3 rooms, no POIs declared,
\* the second room tagged "goal" and the first untagged "entry".
C19_Witness ==
    /\ pc = "repaired"
    /\ Len(Rooms) = 3
    /\ ~Has(GivenPois)
    /\ HasTag(Rooms[2], "goal") /\ ~HasTag(Rooms[3], "goal")
    /\ \A i \in DOMAIN Rooms : ~HasTag(Rooms[i], "entry")
    /\ Pois = <<Poi("poi_spawn", "spawn", "room_1"), Poi("poi_goal", "goal", "room_2")>>

\* C8: on a level with at least 2 rooms repair returns without any error.
C8_OnlyStructuralErrors ==
    (pc \in {"repaired", "failed"} /\ GivenTwoRooms) => (err = "none")

(***************************************************************************)
(* Claims about the assembler, checked under SpecAssemble.                 *)
(***************************************************************************)
Assembled == pc \in {"assembled", "assembled2"}
GridRooms == Get(Get(layout.level).rooms)
GridCorridors == Get(Get(layout.level).corridors)
RoomEdges(i) == Edges(GridCells(GridRooms[i]))

\* No two rooms of the level share interior cells.
RoomsDisjoint ==
    \A i, j \in DOMAIN GridRooms :
        (i < j) =>
            \/ RoomEdges(i).maxX <= RoomEdges(j).minX \/ RoomEdges(j).maxX <= RoomEdges(i).minX
            \/ RoomEdges(i).maxY <= RoomEdges(j).minY \/ RoomEdges(j).maxY <= RoomEdges(i).minY

\* C20: in a repaired level with pairwise non-overlapping rooms, a corridor
\* between two distinct rooms makes exactly one opening in its fromRoom,
\* exactly one in its toRoom, each widthCells * cellSize wide, and none in
\* any other room.
C20_RoomEdgeAttachment ==
    (Assembled /\ RoomsDisjoint) =>
        \A k \in DOMAIN GridCorridors : \A i \in DOMAIN GridRooms :
            LET c == GridCorridors[k]
            IN  (c.fromRoom /= c.toRoom) =>
                    /\ Len(found[i][k]) =
                           (IF GridRooms[i].id \in {c.fromRoom, c.toRoom} THEN 1 ELSE 0)
                    /\ \A n \in DOMAIN found[i][k] :
                           found[i][k][n].width = c.widthCells * GRID_CELL_SIZE

Routed == pc = "routed"
F == Edges(fromRoom)
T == Edges(toRoom)
Segs == Get(corridor).segments
OverlapX == getOverlap(F.minX, F.maxX, T.minX, T.maxX)
OverlapY == getOverlap(F.minY, F.maxY, T.minY, T.maxY)

\* The point (px, py) lies on the boundary of the rectangle with edges E.
OnBoundary(px, py, E) ==
    \/ px \in {E.minX, E.maxX} /\ E.minY <= py /\ py <= E.maxY
    \/ py \in {E.minY, E.maxY} /\ E.minX <= px /\ px <= E.maxX

\* C1: when the X intervals of from and to overlap, the router returns exactly
\* one segment; it is vertical; its X is floor((overlapStart+overlapEnd)/2)
\* and lies in the overlap interval; its Y endpoints are from.maxY and to.minY
\* when from is above to (from.maxY <= to.minY), from.minY and to.maxY when
\* from is below to (to.maxY <= from.minY), and in every case an edge of from
\* and an edge of to.
C1_RouteXOverlap ==
    (Routed /\ OverlapX.hasOverlap) =>
        /\ Len(Segs) = 1
        /\ Segs[1].startX = Segs[1].endX
        /\ Segs[1].startX = (OverlapX.start + OverlapX.end) \div 2
        /\ OverlapX.start <= Segs[1].startX /\ Segs[1].startX < OverlapX.end
        /\ (F.maxY <= T.minY) => (Segs[1].startY = F.maxY /\ Segs[1].endY = T.minY)
        /\ (T.maxY <= F.minY) => (Segs[1].startY = F.minY /\ Segs[1].endY = T.maxY)
        /\ Segs[1].startY \in {F.minY, F.maxY}
        /\ Segs[1].endY \in {T.minY, T.maxY}

\* C1's example: R1 at (0,0) 4x3 and R2 at (0,6) 4x3 give X = 2, Y from 3 to 6.
C1_Witness ==
    /\ Routed
    /\ fromRoom = CellRoom("from", 0, 0, 4, 3)
    /\ toRoom = CellRoom("to", 0, 6, 4, 3)
    /\ Segs = <<Seg(2, 3, 2, 6)>>

\* C2: when from and to overlap on neither axis, the router returns exactly
\* two segments: the first horizontal, starting on from's left or right edge;
\* the second vertical, ending on to's top or bottom edge; the end of the
\* first is the start of the second.
C2_RouteNoOverlap ==
    (Routed /\ ~OverlapX.hasOverlap /\ ~OverlapY.hasOverlap) =>
        /\ Len(Segs) = 2
        /\ Segs[1].startY = Segs[1].endY
        /\ Segs[1].startX \in {F.minX, F.maxX}
        /\ F.minY <= Segs[1].startY /\ Segs[1].startY <= F.maxY
        /\ Segs[2].startX = Segs[2].endX
        /\ Segs[2].endY \in {T.minY, T.maxY}
        /\ T.minX <= Segs[2].endX /\ Segs[2].endX <= T.maxX
        /\ Segs[1].endX = Segs[2].startX
        /\ Segs[1].endY = Segs[2].startY

\* Scenario B: R1 at (0,0) 4x3 and R3 at (8,5) 4x3 give an L with corner (10,1).
C2_Witness ==
    /\ Routed
    /\ fromRoom = CellRoom("from", 0, 0, 4, 3)
    /\ toRoom = CellRoom("to", 8, 5, 4, 3)
    /\ Segs = <<Seg(4, 1, 10, 1), Seg(10, 1, 10, 5)>>

\* C3: the router emits one or two segments, and every segment has an
\* endpoint on the boundary of one of the two rectangles.  (Coordinates are
\* integers throughout: Math.floor is integer division here.)
C3_RouterGuarantee ==
    Routed =>
        /\ Len(Segs) \in {1, 2}
        /\ \A i \in DOMAIN Segs :
              /\ Segs[i].startX \in Int /\ Segs[i].startY \in Int
              /\ Segs[i].endX \in Int /\ Segs[i].endY \in Int
              /\ \/ OnBoundary(Segs[i].startX, Segs[i].startY, F)
                 \/ OnBoundary(Segs[i].startX, Segs[i].startY, T)
                 \/ OnBoundary(Segs[i].endX, Segs[i].endY, F)
                 \/ OnBoundary(Segs[i].endX, Segs[i].endY, T)

\* An L routed from a room at negative coordinates with odd sides (its centre
\* is not an integer) back to the room near the origin.
C3_Witness ==
    /\ Routed
    /\ Len(Segs) = 2
    /\ fromRoom.id = "to"
    /\ fromRoom.gridX < 0 /\ fromRoom.gridY < 0
    /\ fromRoom.width = 3 /\ fromRoom.height = 3

\* C16: when from and to overlap on Y and not on X, the router returns exactly
\* one segment; it is horizontal; its Y is floor((overlapStart+overlapEnd)/2)
\* and lies in the Y ranges of both rooms; it runs from from.maxX to to.minX
\* when from is left of to, from from.minX to to.maxX otherwise, and these
\* are the facing vertical edges.  When both axes overlap the segment is the
\* vertical one.
C16_RouteYOverlap ==
    /\ (Routed /\ ~OverlapX.hasOverlap /\ OverlapY.hasOverlap) =>
          /\ Len(Segs) = 1
          /\ Segs[1].startY = Segs[1].endY
          /\ Segs[1].startX # Segs[1].endX \/ F.maxX = T.minX \/ T.maxX = F.minX
          /\ Segs[1].startY = (OverlapY.start + OverlapY.end) \div 2
          /\ F.minY <= Segs[1].startY /\ Segs[1].startY < F.maxY
          /\ T.minY <= Segs[1].startY /\ Segs[1].startY < T.maxY
          /\ IF F.maxX <= T.minX
             THEN Segs[1].startX = F.maxX /\ Segs[1].endX = T.minX
             ELSE /\ Segs[1].startX = F.minX /\ Segs[1].endX = T.maxX
                  /\ T.maxX <= F.minX
    /\ (Routed /\ OverlapX.hasOverlap /\ OverlapY.hasOverlap) =>
          /\ Len(Segs) = 1
          /\ Segs[1].startX = Segs[1].endX
          /\ Segs[1].startY # Segs[1].endY

\* Rooms side by side, the destination to the left of the source: from at
\* (0,0) 3x4 and to at (-6,1) 2x2 give the row 2 from X = 0 to X = -4.
C16_Witness ==
    /\ Routed
    /\ fromRoom = CellRoom("from", 0, 0, 3, 4)
    /\ toRoom = CellRoom("to", -6, 1, 2, 2)
    /\ Segs = <<Seg(0, 2, -4, 2)>>

(***************************************************************************)
(* Claims about sessions and edits, checked under SpecEdit.                *)
(***************************************************************************)
\* The sessions the Map holds that have a scene.
Held == {s \in DOMAIN sessions : sessions[s].in_map /\ Has(sessions[s].scene_config)}
StoredLevel(s) == Get(Get(sessions[s].level_layout).level)
StoredGeometry(s) == Get(sessions[s].scene_config).geometry
\* An edit of the session has not completed yet.
InFlight(s) == \E t \in DOMAIN tasks : tasks[t].pc # "done" /\ tasks[t].session_id = s

\* C11: once every edit of a session has completed, the geometry stored
\* for the session (rooms, corridors, walls, POI markers) is what the
\* assembler builds from the layout stored for it.
C11_GeometryOfStoredLayout ==
    \A s \in Held :
        ~InFlight(s) => StoredGeometry(s) = buildGridGeometry(StoredLevel(s))

StoredRooms(s) == Get(StoredLevel(s).rooms)
StoredCorridors(s) == Get(StoredLevel(s).corridors)
StoredRoomIds(s) == {StoredRooms(s)[i].id : i \in DOMAIN StoredRooms(s)}
Resolvable(s, c) == c.fromRoom \in StoredRoomIds(s) /\ c.toRoom \in StoredRoomIds(s)

\* C12: in the layout a session holds, the layout every edit hands to the
\* assembler, each corridor's fromRoom and toRoom name rooms of that layout.
C12_CorridorsResolve ==
    \A s \in Held :
        \A k \in DOMAIN StoredCorridors(s) : Resolvable(s, StoredCorridors(s)[k])

\* The segments the router computes between the rooms a corridor names.
Rerouted(s, c) ==
    RouteSegments(Edges(GridCells(Get(FindId(StoredRooms(s), c.fromRoom)))),
                  Edges(GridCells(Get(FindId(StoredRooms(s), c.toRoom)))))

\* C13: in the layout a session holds, each corridor with resolvable
\* endpoints carries the segments the router computes from the rooms of
\* that layout, and those are the segments the assembler draws.
C13_CorridorsRouted ==
    \A s \in Held :
        \A k \in DOMAIN StoredCorridors(s) :
            LET c == StoredCorridors(s)[k]
            IN  Resolvable(s, c) =>
                    /\ c.segments = Rerouted(s, c)
                    /\ convertCorridorSegments(c) =
                           [i \in DOMAIN Rerouted(s, c) |-> WorldSegment(Rerouted(s, c)[i])]

\* The step is an operation addressed to session a: a step of its
\* pipeline, the storing of its results, its deletion, an edit request for
\* it, or a step of one of its edits (which moves that edit on).
OperationOn(a) ==
    \/ PipelineStep(a) \/ StoreResults(a) \/ DeleteSession(a)
    \/ HandleEdit(a)
    \/ \E t \in DOMAIN tasks :
          /\ tasks[t].session_id = a
          /\ tasks'[t] # tasks[t]
          /\ EditProcessed(t) \/ SkyboxGenerated(t)

\* The sessions whose state the step changes.
Changed == {s \in DOMAIN sessions : sessions'[s] # sessions[s]}

AssembledPois == Get(Get(layout.level).pois)
AssembledMarkers == Get(scene).geometry.poi_markers

\* C21: the scene holds one marker per POI of the level, in the order of the
\* POIs, and each marker stands 0.1 above the world centre of the room its
\* POI names.
C21_PoiMarkers ==
    pc = "assembled" =>
        /\ Len(AssembledMarkers) = Len(AssembledPois)
        /\ \A i \in DOMAIN AssembledPois :
              LET poi == AssembledPois[i]
                  room == FindId(Get(Get(layout.level).rooms), poi.roomId)
              IN  /\ AssembledMarkers[i].id = poi.id
                  /\ Has(room)
                  /\ AssembledMarkers[i].position
                        = <<RoomCenterX(Get(room)), 1, RoomCenterZ(Get(room))>>

\* The bounding box of the world rectangles of the assembled level's rooms,
\* in metres.
Least(S) == CHOOSE m \in S : \A n \in S : m <= n
Greatest(S) == CHOOSE m \in S : \A n \in S : m >= n
BoxRooms == {GridCells(r) : r \in Range(GridRooms)}
BoxMinX == Least({GRID_CELL_SIZE * r.gridX : r \in BoxRooms})
BoxMaxX == Greatest({GRID_CELL_SIZE * (r.gridX + r.width) : r \in BoxRooms})
BoxMinZ == Least({GRID_CELL_SIZE * r.gridY : r \in BoxRooms})
BoxMaxZ == Greatest({GRID_CELL_SIZE * (r.gridY + r.height) : r \in BoxRooms})
BoxSide == Max(BoxMaxX - BoxMinX, BoxMaxZ - BoxMinZ)
BoxCentre == <<5 * (BoxMinX + BoxMaxX), 0, 5 * (BoxMinZ + BoxMaxZ)>>
AssembledCamera == Get(scene).camera

\* C22: the camera looks at and orbits the centre of the bounding box of the
\* rooms; its height is 0.8 times the larger side of the box and at least
\* 30; its distance is the larger side of the box and at least 40, the
\* camera standing half that distance behind the box and zooming out to
\* twice that distance (lengths in tenths of a metre).
C22_CameraFraming ==
    pc = "assembled" =>
        /\ AssembledCamera.default.look_at = BoxCentre
        /\ AssembledCamera.orbit_target = BoxCentre
        /\ AssembledCamera.default.position[2] = Max(300, 8 * BoxSide)
        /\ AssembledCamera.default.position[3] = 10 * BoxMaxZ + 5 * Max(40, BoxSide)
        /\ AssembledCamera.max_distance = 20 * Max(40, BoxSide)

\* The objects placed for the assets of a role, and the room a POI names.
PlacedPois == Get(Get(layout.level).pois)
ObjectsOfRole(role) ==
    {o \in Range(objects) :
        \E i \in DOMAIN Ctx.characters :
            Ctx.characters[i].id = o.reference_id /\ Ctx.characters[i].role = role}
AtCentreOf(o, poi) ==
    /\ Has(poi)
    /\ LET room == FindId(PlacedRooms, Get(poi).roomId)
       IN  /\ Has(room)
           /\ o.position = Position(RoomCenterX(Get(room)), RoomCenterZ(Get(room)), None)

\* C23: every placed protagonist stands at the centre of the room of the
\* spawn POI with the protagonist scale, and every placed antagonist at the
\* centre of the room of the goal POI with the antagonist scale, which is
\* the larger.
C23_CharacterAnchors ==
    pc = "placed" =>
        /\ \A o \in ObjectsOfRole("protagonist") :
              /\ AtCentreOf(o, FindType(PlacedPois, "spawn"))
              /\ o.scale = ASSET_SCALES.protagonist
        /\ \A o \in ObjectsOfRole("antagonist") :
              /\ AtCentreOf(o, FindType(PlacedPois, "goal"))
              /\ o.scale = ASSET_SCALES.antagonist
        /\ ASSET_SCALES.antagonist[1] > ASSET_SCALES.protagonist[1]

\* The prop an object was placed for, and the room the code looks for: the
\* first room carrying the prop's first placement tag.
PropOfObject(o) == PropOf([id |-> o.reference_id])
TargetRoomOf(o) == FindRoomTagged(PlacedRooms, TargetTag(Get(PropOfObject(o))))
PropInRoom(o) ==
    /\ \A i \in DOMAIN Ctx.characters : Ctx.characters[i].id /= o.reference_id
    /\ Has(PropOfObject(o))
    /\ Has(TargetRoomOf(o))
SameRoomBefore(i) ==
    {j \in 1..(i - 1) :
        PropInRoom(objects[j]) /\ TargetRoomOf(objects[j]) = TargetRoomOf(objects[i])}

\* C24: a prop stands in the first room carrying its first placement tag, at
\* radius 3 from the room's centre in the direction k*60 - 30 degrees, k being
\* the number of props placed in that room before it; and two props of the
\* same room never have the same position.
C24_PropArc ==
    pc = "placed" =>
        \A i \in DOMAIN objects :
            PropInRoom(objects[i]) =>
                LET room == Get(TargetRoomOf(objects[i]))
                    k == Cardinality(SameRoomBefore(i))
                IN  /\ objects[i].position
                          = Position(RoomCenterX(room), RoomCenterZ(room),
                                     Some([angle |-> (k * 60 - 30) % 360, radius |-> 3]))
                    /\ \A j \in SameRoomBefore(i) :
                          objects[j].position /= objects[i].position

\* The wall span lies on one side of the floor rectangle of the room.
OnSideOf(w, g) ==
    LET minX == g.position[1] - g.size[1] \div 2
        maxX == g.position[1] + g.size[1] \div 2
        minZ == g.position[3] - g.size[3] \div 2
        maxZ == g.position[3] + g.size[3] \div 2
        alongX(z) == /\ w.start[3] = z /\ w.end[3] = z
                     /\ minX <= w.start[1] /\ w.end[1] <= maxX
        alongZ(x) == /\ w.start[1] = x /\ w.end[1] = x
                     /\ minZ <= w.start[3] /\ w.end[3] <= maxZ
    IN  alongX(minZ) \/ alongX(maxZ) \/ alongZ(minX) \/ alongZ(maxX)

\* The wall spans emitted for a room of a stored scene: those on a side of
\* the room and of no other room.
WallsOf(s, g) ==
    {w \in Range(StoredGeometry(s).walls) :
        \A h \in Range(StoredGeometry(s).rooms) : OnSideOf(w, h) <=> h = g}

\* C25: in a stored scene the wall colour of a room is its material's wall
\* colour when it has one, else that of the style of its first matching tag,
\* and every wall span emitted for the room carries that colour.
C25_WallColour ==
    \A s \in Held :
        ~InFlight(s) =>
            \A i \in DOMAIN StoredRooms(s) :
                LET room == StoredRooms(s)[i]
                    resolved == OrElse(OrElse(room.material, EmptyMaterial).wallColor,
                                       getRoomStyle(OrElse(room.tags, <<>>)).wallColor)
                IN  \A g \in Range(StoredGeometry(s).rooms) :
                        g.id = room.id =>
                            /\ g.wallColor = resolved
                            /\ \A w \in WallsOf(s, g) : w.color = resolved

\* C26: no span the call emits shares more than an end point with the
\* interior [position - width/2, position + width/2] of an opening of the
\* side, whatever the openings.
C26_MouthsOpen ==
    pc = "carved" =>
        \A i \in DOMAIN walls :
            \A k \in DOMAIN W.openings :
                \/ Along(W.axis, walls[i].end) <= OpenStart(W.openings[k])
                \/ OpenEnd(W.openings[k]) <= Along(W.axis, walls[i].start)

\* The walls of the assembled scene.
AssembledWalls == Get(scene).geometry.walls

\* C27: no two wall spans of one assembled wall list have the same id.
C27_WallIdsUnique ==
    pc = "assembled" =>
        \A i, j \in DOMAIN AssembledWalls :
            AssembledWalls[i].id = AssembledWalls[j].id => i = j

\* Three rooms, three corridors: sides with an opening have two spans, so the
\* list has more spans than four per room, and the last id is past the
\* twelve ids of the bare sides.
C27_Witness ==
    /\ pc = "assembled"
    /\ Len(GridRooms) = 3
    /\ Len(GridCorridors) = 3
    /\ Len(AssembledWalls) > 4 * Len(GridRooms)
    /\ AssembledWalls[Len(AssembledWalls)].id >= 4 * Len(GridRooms)

\* The skybox path of the scene stored for a session.
StoredSkyboxPath(s) == Get(sessions[s].scene_config).skybox_path

\* C28: an edit that completes without generating a skybox, whatever else
\* it changes (rooms added, removed or modified, so that the scene is
\* assembled again), leaves the skybox path of the session's scene as it
\* was, in particular the path a former edit has put there.
C28_EditsCumulative ==
    [][\A t \in DOMAIN tasks :
          (tasks[t].pc = "processEdit" /\ tasks'[t].pc = "done") =>
              Get(sessions'[tasks[t].session_id].scene_config).skybox_path
                  = StoredSkyboxPath(tasks[t].session_id)]_vars

\* C29: an edit that only replaces the skybox leaves, when it completes, the
\* layout and the geometry stored for its session as they are, whatever
\* other edits of the session have stored while it was in flight.
C29_NoLostUpdate ==
    [][\A t \in DOMAIN tasks :
          (tasks[t].pc = "generateCustomSkybox" /\ tasks'[t].pc = "done") =>
              /\ sessions'[tasks[t].session_id].level_layout
                    = sessions[tasks[t].session_id].level_layout
              /\ Get(sessions'[tasks[t].session_id].scene_config).geometry
                    = StoredGeometry(tasks[t].session_id)]_vars

\* The step ends the invocation t of handleEdit.
Finishes(t) == tasks[t].pc /= "done" /\ tasks'[t].pc = "done"

\* The step sent the client the preview of edit t with status 'failed':
\* the edit agent failed for t.
FailedPreview(t) ==
    \E k \in DOMAIN emitted' : emitted'[k] = Event("edit_preview", Some(EditOf(t, "failed")))

\* C30: a step in which the edit agent fails for an edit shows the edit as
\* completed nowhere (events, current edit, messages), emits neither
\* edit_applied nor scene_updated and leaves the progress of the session as
\* it was; and every step that ends an invocation of handleEdit leaves the
\* chat not processing and without current edit.
C30_FailedEditNotApplied ==
    [][\A t \in DOMAIN tasks :
          /\ FailedPreview(t) =>
                /\ \A k \in DOMAIN emitted' :
                      /\ emitted'[k].name \notin {"edit_applied", "scene_updated"}
                      /\ emitted'[k].edit_result /= Some(EditOf(t, "completed"))
                /\ \A k \in DOMAIN Get(chats'[tasks[t].session_id]).messages :
                      Get(chats'[tasks[t].session_id]).messages[k].edit_result
                          /= Some(EditOf(t, "completed"))
                /\ sessions'[tasks[t].session_id].progress
                      = sessions[tasks[t].session_id].progress
          /\ Finishes(t) =>
                /\ ~Get(chats'[tasks[t].session_id]).is_processing
                /\ Get(chats'[tasks[t].session_id]).current_edit = None]_vars

====
